---- MODULE Spec2Model ----
(***************************************************************************)
(* Model of the Mina wallet extension: the background service worker       *)
(* (session state, internal and external message dispatchers), the storage *)
(* and account libraries it calls, and the content-script relay that       *)
(* forwards page requests to it.                                           *)
(*                                                                         *)
(* A message handler is an async function.  Each step of the model runs    *)
(* one handler from the point where it was suspended up to and including   *)
(* the effect of the next chrome.storage call it awaits (or up to its      *)
(* return, when the response is sent).  Code between two awaits runs       *)
(* without interleaving, as on the service worker's single thread.         *)
(***************************************************************************)
EXTENDS Integers, Sequences, FiniteSets, TLC

\* ------------------------------------------------------------------ bounds

\* Messages received by the service worker in one run, when every kind of
\* message is sent (Spec) and when the session's messages are (SpecSession).
MaxMessages == 2
MaxSessionMessages == 4
\* Handlers that may be suspended at an await at the same time.
MaxInflight == 2
\* Accounts the wallet may hold (createAccount is not sent beyond it).
MaxAccounts == 3
\* Messages received in one run when pages send requests through the relay
\* (SpecRelay).
MaxRelayMessages == 3
\* Messages received in one run when the popup creates a wallet and changes
\* its accounts (SpecAccounts).
MaxAccountMessages == 3
\* Messages received in one run when the popup connects and disconnects
\* sites (SpecSites), and the readings Date.now() takes there.
MaxSiteMessages == 4
MaxNow == 2
\* Messages received in one run when the popup unlocks the session and then
\* leaves it alone (SpecIdle), and the minutes the clock runs there.
MaxIdleMessages == 2
MaxMinutes == 16
\* Messages received in one run while the popup initializes (SpecPopup).
MaxPopupMessages == 5
\* Calls of the functions of accounts.ts made one after the other
\* (SpecLibrary), and the account indices passed to them.
MaxLibraryCalls == 6
\* Messages received in one run when a connected site is disconnected while
\* another is connected (SpecDisconnect).
MaxDisconnectMessages == 3
\* Calls of initWasm in one run (SpecWasm).
MaxWasmCalls == 4
\* Calls of on, off and emit in one run (SpecEmitter).
MaxEmitterCalls == 4
MaxIndexArg == 3
\* calls of MinaProvider.request
MaxCalls == 2
\* message events the provider's listener receives
MaxArrivals == 3
\* steps of the page's clock
MaxTicks == 3

\* ------------------------------------------------------------------ values

\* undefined (chrome.storage returns it for a missing key) is the empty
\* sequence, a stored value v is <<v>>.
None == <<>>
Some(v) == <<v>>

\* JavaScript null, for the mnemonic handle.
Null == "null"

Slots == 1..MaxInflight

\* Inputs of the trusted UI.
Credentials ==
    { [mnemonic |-> "m1", password |-> "p1"],
      [mnemonic |-> "m2", password |-> "p2"] }
Passwords == { c.password : c \in Credentials }
AccountNames == { "Savings" }
SiteNames == { "A", "B" }
Origins == { "https://a.example", "https://b.example" }
PopupOrigin == "chrome-extension://mina"
NetworkIds == { "mainnet", "devnet", "bogusnet" }

\* The callers of initWasm: initialize() of background.ts, and the exported
\* functions of wasm.ts, which all await it first.
WasmCallers == { "initialize", "generateKeypair", "validateAddress" }

\* Events of the provider, and the callbacks a page registers for them.
EventNames == { "ready", "accountsChanged" }
Handlers == { "h1", "h2", "h3" }

\* Keypairs the WASM module may generate.
Keypairs ==
    { [address |-> "B62a", publicKeyHex |-> "pka", secretKeyHex |-> "ska"],
      [address |-> "B62b", publicKeyHex |-> "pkb", secretKeyHex |-> "skb"] }

\* ------------------------------------------------------------------ types.ts

STORAGE_KEYS ==
    [ ENCRYPTED_WALLET |-> "mina_wallet_encrypted",
      ACTIVE_NETWORK |-> "mina_active_network",
      CONNECTED_SITES |-> "mina_connected_sites",
      LAST_ACTIVITY |-> "mina_last_activity" ]

StorageKeySet ==
    { STORAGE_KEYS.ENCRYPTED_WALLET, STORAGE_KEYS.ACTIVE_NETWORK,
      STORAGE_KEYS.CONNECTED_SITES, STORAGE_KEYS.LAST_ACTIVITY }

NETWORKS ==
    [ mainnet |-> [id |-> "mainnet", name |-> "Mainnet"],
      devnet |-> [id |-> "devnet", name |-> "Devnet"] ]

\* constants.ts, in minutes
DEFAULT_AUTO_LOCK_MINUTES == 15

\* ------------------------------------------------------------------ state

VARIABLES
    isUnlocked,          \* background.ts: let isUnlocked
    decryptedMnemonic,   \* background.ts: let _decryptedMnemonic
    storage,             \* chrome.storage.local, by key
    tasks,               \* the suspended handlers, by slot
    sent,                \* what the step just taken sent (a response) or did
    walletPassword,      \* history: the password the stored wallet was made with
    lockHandled,         \* history: lockWallet was handled, and no unlockWallet,
                         \* createWallet or importWallet has succeeded since
    now,                 \* the clock Date.now() reads
    msgCount,            \* messages received so far
    pendingRequests,     \* inpage.ts: MinaProvider.pendingRequests, id -> call
    promises,            \* the promises request() has returned, by call
    timers,              \* the calls whose setTimeout callback has not run yet
    clock,               \* the page's time, in ms
    emitted,             \* the events the provider has emitted, in order
    pageStep,            \* what the provider's step just taken was
    pageCount,           \* window messages the provider's listener has received
    providerConnected,   \* inpage.ts: MinaProvider._isConnected
    page,                \* the page's load: the inpage script and the READY notice
    popup,               \* popup.ts: where initialize() is, and the view shown
    assigned,            \* history: the indices given to accounts of the stored wallet
    wasm,                \* wasm.ts: wasmInitialized, initPromise, and the calls of initWasm
    emitter              \* inpage.ts: EventEmitter.events, and the last call made on it

\* The page's side: the provider injected into it.
providerVars ==
    << pendingRequests, promises, timers, clock, emitted, pageStep, pageCount,
       providerConnected, page >>

\* What the service worker's handlers do not touch: the page's side, the
\* popup, the history of the calls made to accounts.ts directly, the WASM
\* module's initialization and the provider's event handlers.
asideVars == << popup, assigned, wasm, emitter >>
pageVars == << providerVars, asideVars >>

vars ==
    << isUnlocked, decryptedMnemonic, storage, tasks, sent, walletPassword,
       lockHandled, now, msgCount, pageVars >>

Idle == [pc |-> "idle"]
NoOutput == [kind |-> "none"]

\* ------------------------------------------------------------------ storage.ts

getStorage(key) == storage[key]

setStorage(key, value) == [storage EXCEPT ![key] = Some(value)]

getEncryptedWallet == getStorage(STORAGE_KEYS.ENCRYPTED_WALLET)

setEncryptedWallet(wallet) == setStorage(STORAGE_KEYS.ENCRYPTED_WALLET, wallet)

\* hasWallet, on the wallet read from storage: wallet !== undefined
hasWallet(walletRead) == walletRead # None

\* getActiveNetwork: NETWORKS[networkId ?? 'mainnet'] ?? NETWORKS.mainnet
getActiveNetwork(networkRead) ==
    LET networkId == IF networkRead = None THEN "mainnet" ELSE networkRead[1]
    IN  IF networkId \in DOMAIN NETWORKS THEN NETWORKS[networkId]
        ELSE NETWORKS.mainnet

\* setActiveNetwork throws for an id that is not in NETWORKS
NetworkKnown(networkId) == networkId \in DOMAIN NETWORKS

\* getConnectedSites: sites ?? []
getConnectedSites(sitesRead) == IF sitesRead = None THEN <<>> ELSE sitesRead[1]

\* sites.some(s => s.origin === origin)
isSiteConnected(sitesRead, origin) ==
    \E i \in DOMAIN getConnectedSites(sitesRead) :
        getConnectedSites(sitesRead)[i].origin = origin

\* Mutant: the site is pushed whether or not its origin is in the list.
addConnectedSite_Pushes(sitesRead, origin, name, time) ==
    Append(getConnectedSites(sitesRead),
           [origin |-> origin, name |-> name, connectedAt |-> time])

\* addConnectedSite: the list it writes, from the list it read
addConnectedSite(sitesRead, origin, name, time) ==
    LET sites == getConnectedSites(sitesRead)
        hits == { i \in DOMAIN sites : sites[i].origin = origin }
    IN  IF hits # {}
        THEN LET first == CHOOSE i \in hits : \A j \in hits : i <= j
             IN  [sites EXCEPT ![first] =
                    [origin |-> sites[first].origin, name |-> name,
                     connectedAt |-> time]]
        ELSE Append(sites, [origin |-> origin, name |-> name, connectedAt |-> time])

\* removeConnectedSite: sites.filter(s => s.origin !== origin)
removeConnectedSite(sitesRead, origin) ==
    SelectSeq(getConnectedSites(sitesRead), LAMBDA s : s.origin # origin)

\* ------------------------------------------------------------------ accounts.ts

\* `Account ${newIndex + 1}`
DefaultAccountName(index) ==
    << "Account 1", "Account 2", "Account 3", "Account 4", "Account 5" >>[index + 1]

\* getAccounts: wallet?.accounts ?? []
getAccounts(walletRead) ==
    IF walletRead = None THEN <<>> ELSE walletRead[1].accounts

\* getActiveAccount: null (None) without a wallet or accounts, else
\* wallet.accounts[wallet.activeAccountIndex] ?? wallet.accounts[0]
getActiveAccount(walletRead) ==
    IF walletRead = None \/ Len(getAccounts(walletRead)) = 0 THEN None
    ELSE LET wallet == walletRead[1]
         IN  IF wallet.activeAccountIndex + 1 \in DOMAIN wallet.accounts
             THEN Some(wallet.accounts[wallet.activeAccountIndex + 1])
             ELSE Some(wallet.accounts[1])

\* wallet.accounts.find(a => a.index === accountIndex) finds one
HasAccount(wallet, accountIndex) ==
    \E i \in DOMAIN wallet.accounts : wallet.accounts[i].index = accountIndex

\* setActiveAccount: the wallet it writes
setActiveAccount(wallet, accountIndex) ==
    [wallet EXCEPT !.activeAccountIndex = accountIndex]

\* wallet.accounts.reduce((max, a) => Math.max(max, a.index), -1) + 1
RECURSIVE MaxIndex(_)
MaxIndex(accounts) ==
    IF accounts = <<>> THEN -1
    ELSE LET rest == MaxIndex(Tail(accounts))
         IN  IF Head(accounts).index > rest THEN Head(accounts).index ELSE rest

NewIndex(wallet) == MaxIndex(wallet.accounts) + 1

\* createAccount: the account it builds (name ?? `Account ${newIndex + 1}`)
NewAccount(wallet, nameArg, keypair) ==
    [ index |-> NewIndex(wallet),
      name |-> IF nameArg = None THEN DefaultAccountName(NewIndex(wallet))
               ELSE nameArg[1],
      address |-> keypair.address,
      publicKeyHex |-> keypair.publicKeyHex ]

\* createAccount: the wallet it writes
createAccount(wallet, account) ==
    [wallet EXCEPT !.accounts = Append(@, account),
                   !.activeAccountIndex = account.index]

\* renameAccount: the wallet it writes (the first account with that index)
renameAccount(wallet, accountIndex, newName) ==
    LET hits == { i \in DOMAIN wallet.accounts :
                    wallet.accounts[i].index = accountIndex }
        first == CHOOSE i \in hits : \A j \in hits : i <= j
    IN  [wallet EXCEPT !.accounts[first].name = newName]

\* accounts.splice(accountIdx, 1), accountIdx the first position whose
\* account has that index
Splice(accounts, accountIndex) ==
    LET hits == { i \in DOMAIN accounts : accounts[i].index = accountIndex }
        accountIdx == CHOOSE i \in hits : \A j \in hits : i <= j
    IN  [ i \in 1 .. (Len(accounts) - 1) |->
            IF i < accountIdx THEN accounts[i] ELSE accounts[i + 1] ]

\* Mutant: the active pointer is left on the deleted account.
deleteAccount_KeepsPointer(wallet, accountIndex) ==
    [wallet EXCEPT !.accounts = Splice(@, accountIndex)]

\* deleteAccount: the wallet it writes
deleteAccount(wallet, accountIndex) ==
    LET rest == Splice(wallet.accounts, accountIndex)
    IN  [wallet EXCEPT
           !.accounts = rest,
           !.activeAccountIndex =
               IF @ = accountIndex THEN rest[1].index ELSE @]

\* `Imported ${newIndex + 1}`
ImportedAccountName(index) ==
    << "Imported 1", "Imported 2", "Imported 3", "Imported 4", "Imported 5",
       "Imported 6" >>[index + 1]

\* wallet.accounts.find(a => a.address === keypair.address) finds one
HasAddress(wallet, address) ==
    \E i \in DOMAIN wallet.accounts : wallet.accounts[i].address = address

\* importAccountFromPrivateKey: the account it builds
ImportedAccount(wallet, nameArg, keypair) ==
    [ index |-> NewIndex(wallet),
      name |-> IF nameArg = None THEN ImportedAccountName(NewIndex(wallet))
               ELSE nameArg[1],
      address |-> keypair.address,
      publicKeyHex |-> keypair.publicKeyHex ]

\* importAccountFromPrivateKey: the wallet it writes
importAccountFromPrivateKey(wallet, account) ==
    [wallet EXCEPT !.accounts = Append(@, account),
                   !.activeAccountIndex = account.index]

\* createWalletFromMnemonic: the first account
FirstAccount(keypair) ==
    [ index |-> 0, name |-> "Account 1", address |-> keypair.address,
      publicKeyHex |-> keypair.publicKeyHex ]

\* Mutant: the wallet is written without the account that is returned.
createWalletFromMnemonic_NoAccount(mnemonic, password, keypair) ==
    [ encryptedMnemonic |-> mnemonic,
      salt |-> "placeholder-salt",
      iv |-> "placeholder-iv",
      accounts |-> << >>,
      activeAccountIndex |-> 0 ]

\* createWalletFromMnemonic: the wallet it writes (the password is not used)
createWalletFromMnemonic(mnemonic, password, keypair) ==
    [ encryptedMnemonic |-> mnemonic,
      salt |-> "placeholder-salt",
      iv |-> "placeholder-iv",
      accounts |-> << FirstAccount(keypair) >>,
      activeAccountIndex |-> 0 ]

\* importWalletFromMnemonic: same as createWalletFromMnemonic
importWalletFromMnemonic(mnemonic, password, keypair) ==
    createWalletFromMnemonic(mnemonic, password, keypair)

\* ------------------------------------------------------------------ messages

\* content.ts: { action: message.method, ...message.params }: a key of params
\* replaces the key of the same name written before the spread.
Spread(method, params) ==
    [ k \in {"action"} \cup DOMAIN params |->
        IF k \in DOMAIN params THEN params[k] ELSE method ]

\* An optional field of a message: None when the key is absent.
Arg(msg, key) == IF key \in DOMAIN msg THEN Some(msg[key]) ELSE None

\* The BackgroundAction messages of types.ts that the popup sends.
LifecycleMessages ==
    { [action |-> "hasWallet"], [action |-> "isLocked"], [action |-> "lockWallet"] }
    \cup { [action |-> a, mnemonic |-> c.mnemonic, password |-> c.password] :
             a \in {"createWallet", "importWallet"}, c \in Credentials }
    \cup { [action |-> "unlockWallet", password |-> p] : p \in Passwords }

AccountMessages ==
    { [action |-> "getAccounts"], [action |-> "getActiveAccount"],
      [action |-> "createAccount"],
      [action |-> "exportPrivateKey", index |-> 0, password |-> "p1"] }
    \cup { [action |-> "createAccount", name |-> n] : n \in AccountNames }
    \cup { [action |-> "setActiveAccount", index |-> i] : i \in 0..MaxAccounts }
    \cup { [action |-> "renameAccount", index |-> i, name |-> n] :
             i \in {0, MaxAccounts}, n \in AccountNames }

NetworkMessages ==
    { [action |-> "getNetwork"] }
    \cup { [action |-> "switchNetwork", networkId |-> n] : n \in NetworkIds }

SiteMessages ==
    { [action |-> "getConnectedSites"] }
    \cup { [action |-> "connectSite", origin |-> o, name |-> n] :
             o \in Origins, n \in SiteNames }
    \cup { [action |-> a, origin |-> o] :
             a \in {"disconnectSite", "isConnected"}, o \in Origins }

PlaceholderMessages ==
    { [action |-> a] :
        a \in { "getBalance", "getTransactions", "sendPayment", "sendDelegation",
                "signMessage", "signFields" } }

PopupMessages ==
    LifecycleMessages \cup AccountMessages \cup NetworkMessages
    \cup SiteMessages \cup PlaceholderMessages \cup { [action |-> "resetWallet"] }

\* What a page may post: any method name with any params object.
RequestIds == { "id1" }

PageCalls ==
    { [method |-> m, params |-> <<>>] :
        m \in { "mina_accounts", "mina_requestAccounts", "mina_chainId",
                "getAccounts", "getActiveAccount" } }
    \cup { [method |-> "mina_accounts", params |-> [action |-> "getAccounts"]] }
    \cup { [method |-> "connectSite", params |-> [origin |-> o, name |-> "A"]] :
             o \in Origins }

PageRequests ==
    { [type |-> "MINA_PROVIDER_REQUEST", id |-> i, method |-> c.method,
       params |-> c.params] : i \in RequestIds, c \in PageCalls }

\* The methods handleExternalMessage is sent.
ExternalMessages ==
    { [action |-> a] :
        a \in { "mina_requestAccounts", "mina_accounts", "mina_getBalance",
                "mina_chainId", "mina_sendPayment" } }

\* ------------------------------------------------------------------ handlers

Session == [isUnlocked |-> isUnlocked, mnemonic |-> decryptedMnemonic]

SetSession(session) ==
    /\ isUnlocked' = session.isUnlocked
    /\ decryptedMnemonic' = session.mnemonic

Failure(error) == [success |-> FALSE, error |-> error]

\* Mutant: the envelope is posted without the request's id.
RelayResponse_Untagged(request, response) ==
    [type |-> "MINA_PROVIDER_RESPONSE", id |-> "", result |-> response]

\* content.ts: the RESPONSE envelope posted to the page for a reply.
RelayResponse(request, response) ==
    [type |-> "MINA_PROVIDER_RESPONSE", id |-> request.id, result |-> response]

\* content.ts: the RESPONSE envelope posted when sendMessage throws.
RelayError(request, error) ==
    [type |-> "MINA_PROVIDER_RESPONSE", id |-> request.id, error |-> error]

FirstIdle(s) ==
    /\ tasks[s] = Idle
    /\ \A r \in Slots : r < s => tasks[r] # Idle

Running(s, surface, action) ==
    /\ tasks[s] # Idle
    /\ tasks[s].surface = surface
    /\ tasks[s].msg.action = action

NewTask(pc, surface, sender, msg, request, loc) ==
    [ pc |-> pc, surface |-> surface, sender |-> sender, msg |-> msg,
      request |-> request, loc |-> loc,
      seenUnlocked |-> isUnlocked,
      sinceLock |-> lockHandled,
      seenConnected |->
          isSiteConnected(getStorage(STORAGE_KEYS.CONNECTED_SITES), sender.origin) ]

\* History kept with a suspended handler: whether the session was unlocked,
\* and whether the sender's origin was connected, at any moment since the
\* message was received; and whether lockHandled held at every moment since.
Marked(ts) ==
    [ s \in Slots |->
        IF ts[s] = Idle THEN Idle
        ELSE [ ts[s] EXCEPT
                 !.seenUnlocked = @ \/ isUnlocked',
                 !.sinceLock = @ /\ lockHandled',
                 !.seenConnected = @ \/
                     isSiteConnected(storage'[STORAGE_KEYS.CONNECTED_SITES],
                                     ts[s].sender.origin) ] ]

Response(t, resp) ==
    [ kind |-> "response", at |-> t.pc, surface |-> t.surface,
      sender |-> t.sender, msg |-> t.msg, request |-> t.request, resp |-> resp,
      seenUnlocked |-> t.seenUnlocked, sinceLock |-> t.sinceLock,
      seenConnected |-> t.seenConnected,
      posted |-> IF t.request = None THEN None
                 ELSE Some(RelayResponse(t.request[1], resp)) ]

\* The handler awaits: it is suspended at pc with loc, the value it awaits.
Suspend(s, pc, loc) ==
    /\ tasks' = Marked([tasks EXCEPT ![s].pc = pc, ![s].loc = loc])
    /\ sent' = NoOutput

\* The handler returns resp and the listener sends it.
Reply(s, resp) ==
    /\ tasks' = Marked([tasks EXCEPT ![s] = Idle])
    /\ sent' = Response(tasks[s], resp)

\* The accounts stored plus those the suspended createAccount handlers add.
AccountsInSight ==
    Len(getAccounts(getEncryptedWallet))
    + Cardinality({ r \in Slots : tasks[r] # Idle /\ tasks[r].msg.action = "createAccount" })

\* Mutant: the listener's catch lets the fault through.
CaughtResponse_Uncaught(error) == [uncaught |-> error]

\* The catch of a listener: sendResponse({ success: false, error: err.message })
CaughtResponse(error) == Failure(error)

\* background.ts handleMessage, up to `await updateLastActivity()`, which is
\* outside the try block: when it throws, the listener's catch replies.
Receive(s, sender, msg, request, budget) ==
    /\ FirstIdle(s)
    /\ msgCount < budget
    /\ msg.action = "createAccount" => AccountsInSight < MaxAccounts
    /\ msgCount' = msgCount + 1
    /\ UNCHANGED << isUnlocked, decryptedMnemonic, walletPassword, lockHandled, now >>
    /\ \/ /\ storage' = setStorage(STORAGE_KEYS.LAST_ACTIVITY, now)
          /\ tasks' = Marked([tasks EXCEPT ![s] =
                 NewTask("dispatch", "internal", sender, msg, request, None)])
          /\ sent' = NoOutput
       \/ /\ UNCHANGED << storage, tasks >>
          /\ sent' = Response(NewTask("received", "internal", sender, msg, request, None),
                              CaughtResponse("storage error"))

\* chrome.runtime.onMessage: the listener runs handleMessage.
OnMessage(s, sender, msg, request, budget) ==
    /\ Receive(s, sender, msg, request, budget)
    /\ UNCHANGED pageVars

\* popup.ts sendMessage: chrome.runtime.sendMessage from the extension's UI.
PopupSend(s, msg, budget) ==
    OnMessage(s, [kind |-> "popup", origin |-> PopupOrigin], msg, None, budget)

\* content.ts: the relay accepts a window message from its own window that
\* carries the request tag.
RelayAccepts(sameWindow, data) ==
    sameWindow /\ data.type = "MINA_PROVIDER_REQUEST"

\* content.ts: chrome.runtime.sendMessage from the content script, which the
\* service worker receives on chrome.runtime.onMessage.
RelayForward(s, origin, request, budget) ==
    /\ RelayAccepts(TRUE, request)
    /\ OnMessage(s, [kind |-> "content", origin |-> origin],
                 Spread(request.method, request.params), Some(request), budget)

\* case 'hasWallet'
HasWallet(s) ==
    /\ Running(s, "internal", "hasWallet")
    /\ UNCHANGED << isUnlocked, decryptedMnemonic, storage, walletPassword, lockHandled, now, pageVars, msgCount >>
    /\ \/ /\ tasks[s].pc = "dispatch"
          /\ Suspend(s, "r1", getEncryptedWallet)
       \/ /\ tasks[s].pc = "r1"
          /\ Reply(s, [hasWallet |-> hasWallet(tasks[s].loc)])

\* case 'isLocked'
IsLocked(s) ==
    /\ Running(s, "internal", "isLocked")
    /\ UNCHANGED << isUnlocked, decryptedMnemonic, storage, walletPassword, lockHandled, now, pageVars, msgCount >>
    /\ Reply(s, [isLocked |-> ~isUnlocked])

\* case 'createWallet' / 'importWallet', after the wallet was persisted
CreateWalletSession(mnemonic) == [isUnlocked |-> TRUE, mnemonic |-> mnemonic]

\* case 'createWallet'
CreateWallet(s) ==
    /\ Running(s, "internal", "createWallet")
    /\ UNCHANGED << now, pageVars, msgCount >>
    /\ \/ /\ tasks[s].pc = "dispatch"
          /\ \E keypair \in Keypairs :
               /\ storage' = setEncryptedWallet(
                      createWalletFromMnemonic(tasks[s].msg.mnemonic,
                                               tasks[s].msg.password, keypair))
               /\ walletPassword' = Some(tasks[s].msg.password)
               /\ UNCHANGED lockHandled
               /\ UNCHANGED << isUnlocked, decryptedMnemonic >>
               /\ Suspend(s, "r1", FirstAccount(keypair))
       \/ /\ tasks[s].pc = "dispatch"
          /\ UNCHANGED << isUnlocked, decryptedMnemonic, storage, walletPassword, lockHandled >>
          /\ \E error \in {"wasm error", "storage error"} : Reply(s, Failure(error))
       \/ /\ tasks[s].pc = "r1"
          /\ SetSession(CreateWalletSession(tasks[s].msg.mnemonic))
          /\ lockHandled' = FALSE
          /\ UNCHANGED << storage, walletPassword >>
          /\ Reply(s, [success |-> TRUE, account |-> Some(tasks[s].loc)])

\* case 'importWallet'
ImportWallet(s) ==
    /\ Running(s, "internal", "importWallet")
    /\ UNCHANGED << now, pageVars, msgCount >>
    /\ \/ /\ tasks[s].pc = "dispatch"
          /\ \E keypair \in Keypairs :
               /\ storage' = setEncryptedWallet(
                      importWalletFromMnemonic(tasks[s].msg.mnemonic,
                                               tasks[s].msg.password, keypair))
               /\ walletPassword' = Some(tasks[s].msg.password)
               /\ UNCHANGED lockHandled
               /\ UNCHANGED << isUnlocked, decryptedMnemonic >>
               /\ Suspend(s, "r1", FirstAccount(keypair))
       \/ /\ tasks[s].pc = "dispatch"
          /\ UNCHANGED << isUnlocked, decryptedMnemonic, storage, walletPassword, lockHandled >>
          /\ \E error \in {"wasm error", "storage error"} : Reply(s, Failure(error))
       \/ /\ tasks[s].pc = "r1"
          /\ SetSession(CreateWalletSession(tasks[s].msg.mnemonic))
          /\ lockHandled' = FALSE
          /\ UNCHANGED << storage, walletPassword >>
          /\ Reply(s, [success |-> TRUE, account |-> Some(tasks[s].loc)])

\* Mutant: isUnlocked is set before the wallet is looked up.
UnlockWalletOutcome_UnlocksFirst(walletExists, session) ==
    [ resp |-> IF walletExists THEN [success |-> TRUE] ELSE Failure("No wallet found"),
      session |-> [session EXCEPT !.isUnlocked = TRUE] ]

\* case 'unlockWallet', after hasWallet() returned: the reply and the session
UnlockWalletOutcome(walletExists, session) ==
    IF ~walletExists
    THEN [resp |-> Failure("No wallet found"), session |-> session]
    ELSE [resp |-> [success |-> TRUE],
          session |-> [session EXCEPT !.isUnlocked = TRUE]]

\* case 'unlockWallet'
UnlockWallet(s) ==
    /\ Running(s, "internal", "unlockWallet")
    /\ UNCHANGED << storage, walletPassword, now, pageVars, msgCount >>
    /\ \/ /\ tasks[s].pc = "dispatch"
          /\ UNCHANGED << isUnlocked, decryptedMnemonic, lockHandled >>
          /\ Suspend(s, "r1", getEncryptedWallet)
       \/ /\ tasks[s].pc = "r1"
          /\ LET out == UnlockWalletOutcome(hasWallet(tasks[s].loc), Session)
             IN  /\ SetSession(out.session)
                 /\ lockHandled' = (lockHandled /\ ~out.resp.success)
                 /\ Reply(s, out.resp)

\* Mutant: the mnemonic is not discarded.
LockWalletSession_KeepsMnemonic ==
    [isUnlocked |-> FALSE, mnemonic |-> decryptedMnemonic]

\* Mutant: the flag is not cleared.
LockWalletSession_StaysUnlocked ==
    [isUnlocked |-> TRUE, mnemonic |-> Null]

\* case 'lockWallet': the session it leaves
LockWalletSession == [isUnlocked |-> FALSE, mnemonic |-> Null]

\* case 'lockWallet'
LockWallet(s) ==
    /\ Running(s, "internal", "lockWallet")
    /\ UNCHANGED << storage, walletPassword, now, pageVars, msgCount >>
    /\ SetSession(LockWalletSession)
    /\ lockHandled' = TRUE
    /\ Reply(s, [success |-> TRUE])

\* `Account ${accountIndex} not found`
AccountNotFound(accountIndex) ==
    << "Account 0 not found", "Account 1 not found", "Account 2 not found",
       "Account 3 not found", "Account 4 not found" >>[accountIndex + 1]

Locked == Failure("Wallet is locked")

\* case 'getAccounts'
GetAccounts(s) ==
    /\ Running(s, "internal", "getAccounts")
    /\ UNCHANGED << isUnlocked, decryptedMnemonic, storage, walletPassword, lockHandled, now, pageVars, msgCount >>
    /\ \/ /\ tasks[s].pc = "dispatch"
          /\ Suspend(s, "r1", getEncryptedWallet)
       \/ /\ tasks[s].pc = "r1"
          /\ Reply(s, [accounts |-> getAccounts(tasks[s].loc)])

\* case 'getActiveAccount'
GetActiveAccount(s) ==
    /\ Running(s, "internal", "getActiveAccount")
    /\ UNCHANGED << isUnlocked, decryptedMnemonic, storage, walletPassword, lockHandled, now, pageVars, msgCount >>
    /\ \/ /\ tasks[s].pc = "dispatch"
          /\ Suspend(s, "r1", getEncryptedWallet)
       \/ /\ tasks[s].pc = "r1"
          /\ Reply(s, [account |-> getActiveAccount(tasks[s].loc)])

\* case 'setActiveAccount'
SetActiveAccount(s) ==
    /\ Running(s, "internal", "setActiveAccount")
    /\ UNCHANGED << isUnlocked, decryptedMnemonic, walletPassword, lockHandled, now, pageVars, msgCount >>
    /\ \/ /\ tasks[s].pc = "dispatch"
          /\ UNCHANGED storage
          /\ Suspend(s, "r1", getEncryptedWallet)
       \/ /\ tasks[s].pc = "r1"
          /\ tasks[s].loc = None
          /\ UNCHANGED storage
          /\ Reply(s, Failure("No wallet found"))
       \/ /\ tasks[s].pc = "r1"
          /\ tasks[s].loc # None
          /\ ~HasAccount(tasks[s].loc[1], tasks[s].msg.index)
          /\ UNCHANGED storage
          /\ Reply(s, Failure(AccountNotFound(tasks[s].msg.index)))
       \/ /\ tasks[s].pc = "r1"
          /\ tasks[s].loc # None
          /\ HasAccount(tasks[s].loc[1], tasks[s].msg.index)
          /\ \/ /\ storage' = setEncryptedWallet(
                       setActiveAccount(tasks[s].loc[1], tasks[s].msg.index))
                /\ Suspend(s, "r2", None)
             \/ /\ UNCHANGED storage
                /\ Reply(s, Failure("storage error"))
       \/ /\ tasks[s].pc = "r2"
          /\ UNCHANGED storage
          /\ Reply(s, [success |-> TRUE])

\* case 'createAccount'
CreateAccount(s) ==
    /\ Running(s, "internal", "createAccount")
    /\ UNCHANGED << isUnlocked, decryptedMnemonic, walletPassword, lockHandled, now, pageVars, msgCount >>
    /\ \/ /\ tasks[s].pc = "dispatch"
          /\ ~isUnlocked
          /\ UNCHANGED storage
          /\ Reply(s, Locked)
       \/ /\ tasks[s].pc = "dispatch"
          /\ isUnlocked
          /\ UNCHANGED storage
          /\ Suspend(s, "r1", getEncryptedWallet)
       \/ /\ tasks[s].pc = "r1"
          /\ tasks[s].loc = None
          /\ UNCHANGED storage
          /\ Reply(s, Failure("No wallet found"))
       \/ /\ tasks[s].pc = "r1"
          /\ tasks[s].loc # None
          /\ \/ \E keypair \in Keypairs :
                  LET account == NewAccount(tasks[s].loc[1],
                                            Arg(tasks[s].msg, "name"), keypair)
                  IN  /\ storage' = setEncryptedWallet(
                             createAccount(tasks[s].loc[1], account))
                      /\ Suspend(s, "r2", account)
             \/ /\ UNCHANGED storage
                /\ \E error \in {"wasm error", "storage error"} :
                      Reply(s, Failure(error))
       \/ /\ tasks[s].pc = "r2"
          /\ UNCHANGED storage
          /\ Reply(s, [success |-> TRUE, account |-> Some(tasks[s].loc)])

\* case 'renameAccount'
RenameAccount(s) ==
    /\ Running(s, "internal", "renameAccount")
    /\ UNCHANGED << isUnlocked, decryptedMnemonic, walletPassword, lockHandled, now, pageVars, msgCount >>
    /\ \/ /\ tasks[s].pc = "dispatch"
          /\ UNCHANGED storage
          /\ Suspend(s, "r1", getEncryptedWallet)
       \/ /\ tasks[s].pc = "r1"
          /\ tasks[s].loc = None
          /\ UNCHANGED storage
          /\ Reply(s, Failure("No wallet found"))
       \/ /\ tasks[s].pc = "r1"
          /\ tasks[s].loc # None
          /\ ~HasAccount(tasks[s].loc[1], tasks[s].msg.index)
          /\ UNCHANGED storage
          /\ Reply(s, Failure(AccountNotFound(tasks[s].msg.index)))
       \/ /\ tasks[s].pc = "r1"
          /\ tasks[s].loc # None
          /\ HasAccount(tasks[s].loc[1], tasks[s].msg.index)
          /\ \/ /\ storage' = setEncryptedWallet(
                       renameAccount(tasks[s].loc[1], tasks[s].msg.index,
                                     tasks[s].msg.name))
                /\ Suspend(s, "r2", None)
             \/ /\ UNCHANGED storage
                /\ Reply(s, Failure("storage error"))
       \/ /\ tasks[s].pc = "r2"
          /\ UNCHANGED storage
          /\ Reply(s, [success |-> TRUE])

\* Mutant: the lock is not checked.
ExportPrivateKeyResult_Ungated(unlocked) == Failure("Not implemented")

\* case 'exportPrivateKey': the reply
ExportPrivateKeyResult(unlocked) ==
    IF ~unlocked THEN Locked ELSE Failure("Not implemented")

\* case 'exportPrivateKey'
ExportPrivateKey(s) ==
    /\ Running(s, "internal", "exportPrivateKey")
    /\ UNCHANGED << isUnlocked, decryptedMnemonic, storage, walletPassword, lockHandled, now, pageVars, msgCount >>
    /\ Reply(s, ExportPrivateKeyResult(isUnlocked))

\* case 'getNetwork'
GetNetwork(s) ==
    /\ Running(s, "internal", "getNetwork")
    /\ UNCHANGED << isUnlocked, decryptedMnemonic, storage, walletPassword, lockHandled, now, pageVars, msgCount >>
    /\ \/ /\ tasks[s].pc = "dispatch"
          /\ Suspend(s, "r1", getStorage(STORAGE_KEYS.ACTIVE_NETWORK))
       \/ /\ tasks[s].pc = "r1"
          /\ Reply(s, [network |-> getActiveNetwork(tasks[s].loc)])

\* `Unknown network: ${networkId}`
UnknownNetwork(networkId) ==
    IF networkId = "bogusnet" THEN "Unknown network: bogusnet"
    ELSE "Unknown network: ?"

\* case 'switchNetwork'
SwitchNetwork(s) ==
    /\ Running(s, "internal", "switchNetwork")
    /\ UNCHANGED << isUnlocked, decryptedMnemonic, walletPassword, lockHandled, now, pageVars, msgCount >>
    /\ \/ /\ tasks[s].pc = "dispatch"
          /\ ~NetworkKnown(tasks[s].msg.networkId)
          /\ UNCHANGED storage
          /\ Reply(s, Failure(UnknownNetwork(tasks[s].msg.networkId)))
       \/ /\ tasks[s].pc = "dispatch"
          /\ NetworkKnown(tasks[s].msg.networkId)
          /\ \/ /\ storage' = setStorage(STORAGE_KEYS.ACTIVE_NETWORK,
                                         tasks[s].msg.networkId)
                /\ Suspend(s, "r1", None)
             \/ /\ UNCHANGED storage
                /\ Reply(s, Failure("storage error"))
       \/ /\ tasks[s].pc = "r1"
          /\ UNCHANGED storage
          /\ Reply(s, [success |-> TRUE])

\* case 'getConnectedSites'
GetConnectedSites(s) ==
    /\ Running(s, "internal", "getConnectedSites")
    /\ UNCHANGED << isUnlocked, decryptedMnemonic, storage, walletPassword, lockHandled, now, pageVars, msgCount >>
    /\ \/ /\ tasks[s].pc = "dispatch"
          /\ Suspend(s, "r1", getStorage(STORAGE_KEYS.CONNECTED_SITES))
       \/ /\ tasks[s].pc = "r1"
          /\ Reply(s, [sites |-> getConnectedSites(tasks[s].loc)])

\* case 'connectSite'
ConnectSite(s) ==
    /\ Running(s, "internal", "connectSite")
    /\ UNCHANGED << isUnlocked, decryptedMnemonic, walletPassword, lockHandled, now, pageVars, msgCount >>
    /\ \/ /\ tasks[s].pc = "dispatch"
          /\ ~isUnlocked
          /\ UNCHANGED storage
          /\ Reply(s, Locked)
       \/ /\ tasks[s].pc = "dispatch"
          /\ isUnlocked
          /\ UNCHANGED storage
          /\ Suspend(s, "r1", getStorage(STORAGE_KEYS.CONNECTED_SITES))
       \/ /\ tasks[s].pc = "r1"
          /\ \/ /\ storage' = setStorage(STORAGE_KEYS.CONNECTED_SITES,
                       addConnectedSite(tasks[s].loc, tasks[s].msg.origin,
                                        tasks[s].msg.name, now))
                /\ Suspend(s, "r2", None)
             \/ /\ UNCHANGED storage
                /\ Reply(s, Failure("storage error"))
       \/ /\ tasks[s].pc = "r2"
          /\ UNCHANGED storage
          /\ Reply(s, [success |-> TRUE])

\* case 'disconnectSite'
DisconnectSite(s) ==
    /\ Running(s, "internal", "disconnectSite")
    /\ UNCHANGED << isUnlocked, decryptedMnemonic, walletPassword, lockHandled, now, pageVars, msgCount >>
    /\ \/ /\ tasks[s].pc = "dispatch"
          /\ UNCHANGED storage
          /\ Suspend(s, "r1", getStorage(STORAGE_KEYS.CONNECTED_SITES))
       \/ /\ tasks[s].pc = "r1"
          /\ \/ /\ storage' = setStorage(STORAGE_KEYS.CONNECTED_SITES,
                       removeConnectedSite(tasks[s].loc, tasks[s].msg.origin))
                /\ Suspend(s, "r2", None)
             \/ /\ UNCHANGED storage
                /\ Reply(s, Failure("storage error"))
       \/ /\ tasks[s].pc = "r2"
          /\ UNCHANGED storage
          /\ Reply(s, [success |-> TRUE])

\* case 'isConnected'
IsConnected(s) ==
    /\ Running(s, "internal", "isConnected")
    /\ UNCHANGED << isUnlocked, decryptedMnemonic, storage, walletPassword, lockHandled, now, pageVars, msgCount >>
    /\ \/ /\ tasks[s].pc = "dispatch"
          /\ Suspend(s, "r1", getStorage(STORAGE_KEYS.CONNECTED_SITES))
       \/ /\ tasks[s].pc = "r1"
          /\ Reply(s, [connected |-> isSiteConnected(tasks[s].loc, tasks[s].msg.origin)])

\* The blockchain placeholders: what each case returns.
PlaceholderResult(action) ==
    CASE action = "getBalance" -> [balance |-> "0"]
      [] action = "getTransactions" -> [transactions |-> <<>>]
      [] OTHER -> Failure("Not implemented")

PlaceholderActions ==
    { "getBalance", "getTransactions", "sendPayment", "sendDelegation",
      "signMessage", "signFields" }

\* case 'getBalance' ... case 'signFields'
Placeholder(s) ==
    /\ tasks[s] # Idle
    /\ tasks[s].surface = "internal"
    /\ tasks[s].msg.action \in PlaceholderActions
    /\ UNCHANGED << isUnlocked, decryptedMnemonic, storage, walletPassword, lockHandled, now, pageVars, msgCount >>
    /\ Reply(s, PlaceholderResult(tasks[s].msg.action))

\* The actions handleMessage has a case for.
HandledActions ==
    { "hasWallet", "isLocked", "createWallet", "importWallet", "unlockWallet",
      "lockWallet", "getAccounts", "getActiveAccount", "setActiveAccount",
      "createAccount", "renameAccount", "exportPrivateKey", "getNetwork",
      "switchNetwork", "getConnectedSites", "connectSite", "disconnectSite",
      "isConnected" } \cup PlaceholderActions

\* default:
UnknownAction(s) ==
    /\ tasks[s] # Idle
    /\ tasks[s].surface = "internal"
    /\ tasks[s].msg.action \notin HandledActions
    /\ UNCHANGED << isUnlocked, decryptedMnemonic, storage, walletPassword, lockHandled, now, pageVars, msgCount >>
    /\ Reply(s, Failure("Unknown action"))

\* ------------------------------------------------------------------ external

\* What the browser tells of the sender of an external message.
ExternalSenders == { [origin |-> Some(o), url |-> Some(o)] : o \in Origins }

\* sender.origin ?? sender.url ?? 'unknown'
SenderOrigin(sender) ==
    IF sender.origin # None THEN sender.origin[1]
    ELSE IF sender.url # None THEN sender.url[1]
    ELSE "unknown"

ExternalMethods ==
    { "mina_requestAccounts", "mina_accounts", "mina_getBalance", "mina_chainId" }

\* Mutant: the error does not name the method.
UnknownMethod_Unnamed(action) == "Unknown method"

\* `Unknown method: ${message.action}`
UnknownMethod(action) ==
    IF action = "mina_sendPayment" THEN "Unknown method: mina_sendPayment"
    ELSE "Unknown method: ?"

\* Mutant: an origin that is not connected is approved without asking.
RequestAccountsGate_AutoApproves(connected, unlocked) ==
    IF ~unlocked THEN Some([error |-> "Wallet is locked"]) ELSE None

\* case 'mina_requestAccounts', after isSiteConnected: the reply that ends the
\* case early, or None to go on to the active account
RequestAccountsGate(connected, unlocked) ==
    IF ~connected THEN Some([error |-> "User rejected connection"])
    ELSE IF ~unlocked THEN Some([error |-> "Wallet is locked"])
    ELSE None

\* Mutant: the origin is not looked up.
AccountsGate_AnyOrigin(connected, unlocked) ==
    IF ~unlocked THEN Some([accounts |-> <<>>]) ELSE None

\* case 'mina_accounts', after isSiteConnected
AccountsGate(connected, unlocked) ==
    IF ~connected \/ ~unlocked THEN Some([accounts |-> <<>>])
    ELSE None

\* { accounts: account ? [account.address] : [] }
AccountsResult(account) ==
    [accounts |-> IF account = None THEN <<>> ELSE << account[1].address >>]

\* The onMessageExternal listener and handleExternalMessage up to its first
\* await (or to its return, for the cases without one).
OnMessageExternal(s, sender, msg, budget) ==
    LET from == [kind |-> "external", origin |-> SenderOrigin(sender)]
    IN  /\ FirstIdle(s)
        /\ msgCount < budget
        /\ msgCount' = msgCount + 1
        /\ UNCHANGED << isUnlocked, decryptedMnemonic, storage, walletPassword, lockHandled, now, pageVars >>
        /\ \/ /\ msg.action \in {"mina_requestAccounts", "mina_accounts"}
              /\ tasks' = Marked([tasks EXCEPT ![s] =
                     NewTask("e1", "external", from, msg, None,
                             getStorage(STORAGE_KEYS.CONNECTED_SITES))])
              /\ sent' = NoOutput
           \/ /\ msg.action = "mina_chainId"
              /\ tasks' = Marked([tasks EXCEPT ![s] =
                     NewTask("e1", "external", from, msg, None,
                             getStorage(STORAGE_KEYS.ACTIVE_NETWORK))])
              /\ sent' = NoOutput
           \/ /\ msg.action = "mina_getBalance"
              /\ UNCHANGED tasks
              /\ sent' = Response(NewTask("e1", "external", from, msg, None, None),
                                  [balance |-> "0"])
           \/ /\ msg.action \notin ExternalMethods
              /\ UNCHANGED tasks
              /\ sent' = Response(NewTask("e1", "external", from, msg, None, None),
                                  [error |-> UnknownMethod(msg.action)])

\* case 'mina_requestAccounts'
ExtRequestAccounts(s) ==
    /\ Running(s, "external", "mina_requestAccounts")
    /\ UNCHANGED << isUnlocked, decryptedMnemonic, storage, walletPassword, lockHandled, now, pageVars, msgCount >>
    /\ \/ /\ tasks[s].pc = "e1"
          /\ LET gate == RequestAccountsGate(
                     isSiteConnected(tasks[s].loc, tasks[s].sender.origin),
                     isUnlocked)
             IN  IF gate # None THEN Reply(s, gate[1])
                 ELSE Suspend(s, "e2", getEncryptedWallet)
       \/ /\ tasks[s].pc = "e2"
          /\ Reply(s, AccountsResult(getActiveAccount(tasks[s].loc)))

\* case 'mina_accounts'
ExtAccounts(s) ==
    /\ Running(s, "external", "mina_accounts")
    /\ UNCHANGED << isUnlocked, decryptedMnemonic, storage, walletPassword, lockHandled, now, pageVars, msgCount >>
    /\ \/ /\ tasks[s].pc = "e1"
          /\ LET gate == AccountsGate(
                     isSiteConnected(tasks[s].loc, tasks[s].sender.origin),
                     isUnlocked)
             IN  IF gate # None THEN Reply(s, gate[1])
                 ELSE Suspend(s, "e2", getEncryptedWallet)
       \/ /\ tasks[s].pc = "e2"
          /\ Reply(s, AccountsResult(getActiveAccount(tasks[s].loc)))

\* case 'mina_chainId'
ExtChainId(s) ==
    /\ Running(s, "external", "mina_chainId")
    /\ UNCHANGED << isUnlocked, decryptedMnemonic, storage, walletPassword, lockHandled, now, pageVars, msgCount >>
    /\ Reply(s, [chainId |-> getActiveNetwork(tasks[s].loc).id])

\* The storage read a handler of handleExternalMessage awaits throws: the
\* function has no try block, and the onMessageExternal listener's catch
\* replies.
ExternalCatch(s) ==
    /\ tasks[s] # Idle
    /\ tasks[s].surface = "external"
    /\ UNCHANGED << isUnlocked, decryptedMnemonic, storage, walletPassword, lockHandled, now, pageVars, msgCount >>
    /\ tasks' = Marked([tasks EXCEPT ![s] = Idle])
    /\ sent' = Response([tasks[s] EXCEPT !.pc = "caught"],
                        CaughtResponse("storage error"))

\* ------------------------------------------------------------------ service worker

\* Mutant: the service worker starts with the flag set.
StartupSession_Unlocked == [isUnlocked |-> TRUE, mnemonic |-> Null]

\* The session a started service worker has: the initial values of the
\* module's variables, which the onStartup listener assigns again.
StartupSession == [isUnlocked |-> FALSE, mnemonic |-> Null]

\* content.ts: the relay's sendMessage calls that were awaiting a reply when
\* the service worker went away are rejected, and the relay posts an error
\* envelope for each.
ChannelClosed(ts) ==
    LET killed == SelectSeq(ts, LAMBDA t : t # Idle /\ t.request # None)
    IN  [ i \in 1..Len(killed) |->
            RelayError(killed[i].request[1],
                       "The message port closed before a response was received") ]

\* The service worker (re)starts: the handlers it was running are gone.
Restart ==
    /\ SetSession(StartupSession)
    /\ tasks' = [s \in Slots |-> Idle]
    /\ sent' = [ kind |-> "restart", wasUnlocked |-> isUnlocked,
                 posted |-> ChannelClosed(tasks) ]
    /\ UNCHANGED << storage, walletPassword, lockHandled, now, pageVars, msgCount >>

\* content.ts: chrome.runtime.sendMessage throws (the service worker cannot
\* be reached) and the relay posts an error envelope.
RelayForwardFails(origin, request, budget) ==
    /\ RelayAccepts(TRUE, request)
    /\ msgCount < budget
    /\ sent' = [ kind |-> "relayError",
                 sender |-> [kind |-> "content", origin |-> origin],
                 request |-> Some(request),
                 posted |-> Some(RelayError(request, "Could not establish connection")) ]
    /\ UNCHANGED << isUnlocked, decryptedMnemonic, storage, tasks, walletPassword, lockHandled,
                    now, pageVars >>
    /\ msgCount' = msgCount + 1

\* The page before the content script runs: no inpage script element, no
\* READY notice posted.
\* wasm.ts: `let wasmInitialized = false; let initPromise = null`, no call of
\* initWasm made yet.  attempts are the runs of the async function assigned
\* to initPromise; inits counts the calls of the module's init().
WasmAtStart ==
    [ wasmInitialized |-> FALSE, initPromise |-> None, attempts |-> << >>,
      callers |-> [ c \in WasmCallers |-> [pc |-> "idle", attempt |-> 0] ],
      inits |-> 0, calls |-> 0 ]

\* class EventEmitter: `events = new Map()`, no call made yet.
EmitterAtStart ==
    [ events |-> [ e \in EventNames |-> << >> ], last |-> NoOutput, calls |-> 0 ]

\* The popup before its document has loaded.
PopupClosed == [pc |-> "closed", awaiting |-> "none", view |-> "none"]

PageAtStart == [script |-> "absent", ready |-> "unsent"]

\* The page once inpage.js has run (the provider is constructed and its
\* listener installed) and the content script's READY notice is behind.
PageProvided == [script |-> "run", ready |-> "received"]

Init ==
    /\ isUnlocked = StartupSession.isUnlocked
    /\ decryptedMnemonic = StartupSession.mnemonic
    /\ storage = [k \in StorageKeySet |-> None]
    /\ tasks = [s \in Slots |-> Idle]
    /\ sent = NoOutput
    /\ walletPassword = None
    /\ lockHandled = FALSE
    /\ now = 0
    /\ msgCount = 0
    /\ pendingRequests = [ i \in {} |-> 0 ]
    /\ promises = << >>
    /\ timers = {}
    /\ clock = 0
    /\ emitted = << >>
    /\ pageStep = NoOutput
    /\ pageCount = 0
    /\ providerConnected = FALSE
    /\ page = PageProvided
    /\ popup = PopupClosed
    /\ assigned = {}
    /\ wasm = WasmAtStart
    /\ emitter = EmitterAtStart

Next ==
    \/ \E s \in Slots, msg \in PopupMessages : PopupSend(s, msg, MaxMessages)
    \/ \E s \in Slots, o \in Origins, request \in PageRequests :
          RelayForward(s, o, request, MaxMessages)
    \/ \E o \in Origins, request \in PageRequests :
          RelayForwardFails(o, request, MaxMessages)
    \/ \E s \in Slots, sender \in ExternalSenders, msg \in ExternalMessages :
          OnMessageExternal(s, sender, msg, MaxMessages)
    \/ \E s \in Slots :
          \/ HasWallet(s) \/ IsLocked(s) \/ CreateWallet(s) \/ ImportWallet(s)
          \/ UnlockWallet(s) \/ LockWallet(s)
          \/ GetAccounts(s) \/ GetActiveAccount(s) \/ SetActiveAccount(s)
          \/ CreateAccount(s) \/ RenameAccount(s) \/ ExportPrivateKey(s)
          \/ GetNetwork(s) \/ SwitchNetwork(s)
          \/ GetConnectedSites(s) \/ ConnectSite(s) \/ DisconnectSite(s)
          \/ IsConnected(s)
          \/ Placeholder(s) \/ UnknownAction(s)
          \/ ExtRequestAccounts(s) \/ ExtAccounts(s) \/ ExtChainId(s)
          \/ ExternalCatch(s)
    \/ Restart

Spec == Init /\ [][Next]_vars

\* The next step of the handler suspended in slot s, whichever case it runs.
HandlerStep(s) ==
    \/ HasWallet(s) \/ IsLocked(s) \/ CreateWallet(s) \/ ImportWallet(s)
    \/ UnlockWallet(s) \/ LockWallet(s)
    \/ GetAccounts(s) \/ GetActiveAccount(s) \/ SetActiveAccount(s)
    \/ CreateAccount(s) \/ RenameAccount(s) \/ ExportPrivateKey(s)
    \/ GetNetwork(s) \/ SwitchNetwork(s)
    \/ GetConnectedSites(s) \/ ConnectSite(s) \/ DisconnectSite(s)
    \/ IsConnected(s)
    \/ Placeholder(s) \/ UnknownAction(s)
    \/ ExtRequestAccounts(s) \/ ExtAccounts(s) \/ ExtChainId(s)

\* An awaited promise settles: a suspended handler does run its next step.
FairSpec == Spec /\ \A s \in Slots : WF_vars(HandlerStep(s))

\* The session's messages only: the wallet lifecycle, the approval and the
\* removal of a site, and the account requests of pages.
SessionPopupMessages ==
    LifecycleMessages
    \cup { [action |-> "connectSite", origin |-> o, name |-> "A"] : o \in Origins }
    \cup { [action |-> "disconnectSite", origin |-> o] : o \in Origins }

SessionPageRequests ==
    { r \in PageRequests :
        r.params = <<>> /\ r.method \in {"mina_accounts", "mina_requestAccounts"} }

SessionExternalMessages ==
    { m \in ExternalMessages : m.action \in {"mina_accounts", "mina_requestAccounts"} }

NextSession ==
    \/ \E s \in Slots, msg \in SessionPopupMessages :
          PopupSend(s, msg, MaxSessionMessages)
    \/ \E s \in Slots, o \in Origins, request \in SessionPageRequests :
          RelayForward(s, o, request, MaxSessionMessages)
    \/ \E o \in Origins, request \in SessionPageRequests :
          RelayForwardFails(o, request, MaxSessionMessages)
    \/ \E s \in Slots, sender \in ExternalSenders, msg \in SessionExternalMessages :
          OnMessageExternal(s, sender, msg, MaxSessionMessages)
    \/ \E s \in Slots :
          \/ HasWallet(s) \/ IsLocked(s) \/ CreateWallet(s) \/ ImportWallet(s)
          \/ UnlockWallet(s) \/ LockWallet(s)
          \/ ConnectSite(s) \/ DisconnectSite(s)
          \/ UnknownAction(s)
          \/ ExtRequestAccounts(s) \/ ExtAccounts(s)
    \/ Restart

SpecSession == Init /\ [][NextSession]_vars

\* The requests of pages through the relay, two of them told apart by id,
\* with the wallet's creation by the popup.
RelayRequests ==
    { [type |-> "MINA_PROVIDER_REQUEST", id |-> i, method |-> m, params |-> << >>] :
        i \in { "id1", "id2" }, m \in { "mina_accounts", "getAccounts" } }

RelayPopupMessages ==
    { [action |-> "createWallet", mnemonic |-> "m1", password |-> "p1"] }

NextRelay ==
    \/ \E s \in Slots, msg \in RelayPopupMessages :
          PopupSend(s, msg, MaxRelayMessages)
    \/ \E s \in Slots, o \in Origins, request \in RelayRequests :
          RelayForward(s, o, request, MaxRelayMessages)
    \/ \E o \in Origins, request \in RelayRequests :
          RelayForwardFails(o, request, MaxRelayMessages)
    \/ \E s \in Slots : CreateWallet(s) \/ GetAccounts(s) \/ UnknownAction(s)
    \/ Restart

SpecRelay == Init /\ [][NextRelay]_vars

\* A handler that can run its next step does run it.
FairSpecRelay ==
    /\ SpecRelay
    /\ \A s \in Slots :
          /\ WF_vars(CreateWallet(s))
          /\ WF_vars(GetAccounts(s))
          /\ WF_vars(UnknownAction(s))

\* The popup creates a wallet and then changes its accounts: the messages
\* whose handlers read the EncryptedWallet, await, and write it back.
AccountsPopupMessages ==
    { [action |-> "createWallet", mnemonic |-> "m1", password |-> "p1"],
      [action |-> "createAccount"],
      [action |-> "createAccount", name |-> "Savings"],
      [action |-> "renameAccount", index |-> 0, name |-> "Savings"],
      [action |-> "setActiveAccount", index |-> 0],
      [action |-> "setActiveAccount", index |-> 1] }

NextAccounts ==
    \/ \E s \in Slots, msg \in AccountsPopupMessages :
          PopupSend(s, msg, MaxAccountMessages)
    \/ \E s \in Slots : CreateWallet(s)
    \/ \E s \in Slots : CreateAccount(s)
    \/ \E s \in Slots : RenameAccount(s)
    \/ \E s \in Slots : SetActiveAccount(s)

SpecAccounts == Init /\ [][NextAccounts]_vars

\* The popup creates a wallet, then connects and disconnects sites, while
\* time passes.
SitesPopupMessages ==
    { [action |-> "createWallet", mnemonic |-> "m1", password |-> "p1"] }
    \cup { [action |-> "connectSite", origin |-> o, name |-> n] :
             o \in Origins, n \in SiteNames }
    \cup { [action |-> "disconnectSite", origin |-> o] : o \in Origins }

\* Date.now() reads a later time.
TimePasses ==
    /\ now < MaxNow
    /\ now' = now + 1
    /\ sent' = NoOutput
    /\ UNCHANGED << isUnlocked, decryptedMnemonic, storage, tasks, walletPassword,
                    lockHandled, msgCount, pageVars >>

NextSites ==
    \/ \E s \in Slots, msg \in SitesPopupMessages :
          PopupSend(s, msg, MaxSiteMessages)
    \/ \E s \in Slots : CreateWallet(s)
    \/ \E s \in Slots : ConnectSite(s)
    \/ \E s \in Slots : DisconnectSite(s)
    \/ TimePasses

SpecSites == Init /\ [][NextSites]_vars

\* storage.ts getAutoLockMinutes: minutes ?? DEFAULT_AUTO_LOCK_MINUTES.  No code
\* calls setAutoLockMinutes, so the key is never stored.
getAutoLockMinutes == DEFAULT_AUTO_LOCK_MINUTES

\* storage.ts getLastActivity: timestamp ?? Date.now()
getLastActivity ==
    IF getStorage(STORAGE_KEYS.LAST_ACTIVITY) = None THEN now
    ELSE getStorage(STORAGE_KEYS.LAST_ACTIVITY)[1]

\* A minute passes with no message received.  The service worker sets no
\* timer and no alarm, and nothing calls getLastActivity or
\* getAutoLockMinutes: no code runs.
MinutePasses ==
    /\ now < MaxMinutes
    /\ now' = now + 1
    /\ sent' = NoOutput
    /\ UNCHANGED << isUnlocked, decryptedMnemonic, storage, tasks, walletPassword,
                    lockHandled, msgCount, pageVars >>

\* The popup creates a wallet, which unlocks the session, and may lock it;
\* then the user leaves the wallet alone while the minutes pass.
IdlePopupMessages ==
    { [action |-> "createWallet", mnemonic |-> "m1", password |-> "p1"],
      [action |-> "lockWallet"],
      [action |-> "isLocked"] }

NextIdle ==
    \/ \E s \in Slots, msg \in IdlePopupMessages :
          PopupSend(s, msg, MaxIdleMessages)
    \/ \E s \in Slots : CreateWallet(s)
    \/ \E s \in Slots : LockWallet(s)
    \/ \E s \in Slots : IsLocked(s)
    \/ MinutePasses

SpecIdle == Init /\ [][NextIdle]_vars

\* The site that is connected when SpecDisconnect starts.
ConnectedOrigin == "https://a.example"

\* While the one site is disconnected, the popup connects and disconnects
\* the other sites; no connectSite is sent for ConnectedOrigin.
DisconnectPopupMessages ==
    { [action |-> "disconnectSite", origin |-> o] : o \in Origins }
    \cup { [action |-> "connectSite", origin |-> o, name |-> n] :
             o \in Origins \ { ConnectedOrigin }, n \in SiteNames }

\* The session is unlocked on a stored wallet and ConnectedOrigin has been
\* connected: the state createWallet and connectSite leave.
InitConnected ==
    /\ isUnlocked = CreateWalletSession("m1").isUnlocked
    /\ decryptedMnemonic = CreateWalletSession("m1").mnemonic
    /\ \E keypair \in Keypairs :
          storage =
            [ k \in StorageKeySet |->
                CASE k = STORAGE_KEYS.ENCRYPTED_WALLET ->
                       Some(createWalletFromMnemonic("m1", "p1", keypair))
                  [] k = STORAGE_KEYS.CONNECTED_SITES ->
                       Some(addConnectedSite(None, ConnectedOrigin, "A", 0))
                  [] k = STORAGE_KEYS.LAST_ACTIVITY -> Some(0)
                  [] OTHER -> None ]
    /\ tasks = [s \in Slots |-> Idle]
    /\ sent = NoOutput
    /\ walletPassword = Some("p1")
    /\ lockHandled = FALSE
    /\ now = 0
    /\ msgCount = 0
    /\ pendingRequests = [ i \in {} |-> 0 ]
    /\ promises = << >>
    /\ timers = {}
    /\ clock = 0
    /\ emitted = << >>
    /\ pageStep = NoOutput
    /\ pageCount = 0
    /\ providerConnected = FALSE
    /\ page = PageProvided
    /\ popup = PopupClosed
    /\ assigned = {}
    /\ wasm = WasmAtStart
    /\ emitter = EmitterAtStart

NextDisconnect ==
    \/ \E s \in Slots, msg \in DisconnectPopupMessages :
          PopupSend(s, msg, MaxDisconnectMessages)
    \/ \E s \in Slots : ConnectSite(s)
    \/ \E s \in Slots : DisconnectSite(s)

SpecDisconnect == InitConnected /\ [][NextDisconnect]_vars

\* ------------------------------------------------------------------ accounts.ts, called directly

\* One call of a function of accounts.ts, run to its end before the next
\* call starts: the wallet it read, the wallet it writes (None when it writes
\* nothing) and what it returns or throws.
LibraryCall(fn, args, written, outcome) ==
    /\ msgCount < MaxLibraryCalls
    /\ msgCount' = msgCount + 1
    /\ storage' = IF written = None THEN storage ELSE setEncryptedWallet(written[1])
    /\ sent' = [kind |-> "call", fn |-> fn, args |-> args,
                read |-> getEncryptedWallet, outcome |-> outcome]
    /\ UNCHANGED << isUnlocked, decryptedMnemonic, tasks, walletPassword,
                    lockHandled, now, providerVars, popup, wasm, emitter >>

Returned(value) == [returned |-> value]
Threw(error) == [threw |-> error]

CallCreateWallet ==
    \E keypair \in Keypairs :
        /\ LibraryCall("createWalletFromMnemonic", << >>,
                       Some(createWalletFromMnemonic("m1", "p1", keypair)),
                       Returned(FirstAccount(keypair)))
        /\ assigned' = { FirstAccount(keypair).index }

CallCreateAccount(nameArg) ==
    IF getEncryptedWallet = None
    THEN /\ LibraryCall("createAccount", << >>, None, Threw("No wallet found"))
         /\ UNCHANGED assigned
    ELSE LET wallet == getEncryptedWallet[1]
         IN  /\ Len(wallet.accounts) < MaxAccounts
             /\ \E keypair \in Keypairs :
                   LET account == NewAccount(wallet, nameArg, keypair)
                   IN  /\ LibraryCall("createAccount", << >>,
                                      Some(createAccount(wallet, account)),
                                      Returned(account))
                       /\ assigned' = assigned \cup { account.index }

CallImportAccount(keypair, nameArg) ==
    IF getEncryptedWallet = None
    THEN /\ LibraryCall("importAccountFromPrivateKey", << >>, None,
                        Threw("No wallet found"))
         /\ UNCHANGED assigned
    ELSE LET wallet == getEncryptedWallet[1]
             account == ImportedAccount(wallet, nameArg, keypair)
         IN  IF HasAddress(wallet, keypair.address)
             THEN /\ LibraryCall("importAccountFromPrivateKey", << >>, None,
                                 Threw("Account already exists"))
                  /\ UNCHANGED assigned
             ELSE /\ Len(wallet.accounts) < MaxAccounts
                  /\ LibraryCall("importAccountFromPrivateKey", << >>,
                                 Some(importAccountFromPrivateKey(wallet, account)),
                                 Returned(account))
                  /\ assigned' = assigned \cup { account.index }

CallSetActiveAccount(accountIndex) ==
    /\ UNCHANGED assigned
    /\ IF getEncryptedWallet = None
       THEN LibraryCall("setActiveAccount", << accountIndex >>, None,
                        Threw("No wallet found"))
       ELSE IF ~HasAccount(getEncryptedWallet[1], accountIndex)
       THEN LibraryCall("setActiveAccount", << accountIndex >>, None,
                        Threw(AccountNotFound(accountIndex)))
       ELSE LibraryCall("setActiveAccount", << accountIndex >>,
                        Some(setActiveAccount(getEncryptedWallet[1], accountIndex)),
                        Returned(Null))

CallRenameAccount(accountIndex, newName) ==
    /\ UNCHANGED assigned
    /\ IF getEncryptedWallet = None
       THEN LibraryCall("renameAccount", << accountIndex >>, None,
                        Threw("No wallet found"))
       ELSE IF ~HasAccount(getEncryptedWallet[1], accountIndex)
       THEN LibraryCall("renameAccount", << accountIndex >>, None,
                        Threw(AccountNotFound(accountIndex)))
       ELSE LibraryCall("renameAccount", << accountIndex >>,
                        Some(renameAccount(getEncryptedWallet[1], accountIndex, newName)),
                        Returned(Null))

CallDeleteAccount(accountIndex) ==
    /\ UNCHANGED assigned
    /\ IF getEncryptedWallet = None
       THEN LibraryCall("deleteAccount", << accountIndex >>, None,
                        Threw("No wallet found"))
       ELSE IF Len(getEncryptedWallet[1].accounts) <= 1
       THEN LibraryCall("deleteAccount", << accountIndex >>, None,
                        Threw("Cannot delete the last account"))
       ELSE IF ~HasAccount(getEncryptedWallet[1], accountIndex)
       THEN LibraryCall("deleteAccount", << accountIndex >>, None,
                        Threw(AccountNotFound(accountIndex)))
       ELSE LibraryCall("deleteAccount", << accountIndex >>,
                        Some(deleteAccount(getEncryptedWallet[1], accountIndex)),
                        Returned(Null))

IndexArgs == 0 .. MaxIndexArg

NextLibrary ==
    \/ CallCreateWallet
    \/ \E nameArg \in { None } \cup { Some(n) : n \in AccountNames } :
          CallCreateAccount(nameArg)
    \/ \E keypair \in Keypairs, nameArg \in { None } \cup { Some(n) : n \in AccountNames } :
          CallImportAccount(keypair, nameArg)
    \/ \E accountIndex \in IndexArgs : CallSetActiveAccount(accountIndex)
    \/ \E accountIndex \in IndexArgs, newName \in AccountNames :
          CallRenameAccount(accountIndex, newName)
    \/ \E accountIndex \in IndexArgs : CallDeleteAccount(accountIndex)

SpecLibrary == Init /\ [][NextLibrary]_vars

\* ------------------------------------------------------------------ wasm.ts

\* isWasmInitialized()
isWasmInitialized == wasm.wasmInitialized

\* Mutant: initWasm starts an attempt whether or not one is stored.
StartsAttempt_Always(initPromise) == TRUE

\* `if (!initPromise)`: initWasm starts an attempt
StartsAttempt(initPromise) == initPromise = None

\* Mutant: the catch leaves the rejected promise in initPromise.
InitPromiseAfterCatch_Kept(initPromise) == initPromise

\* catch: `initPromise = null; // Allow retry`
InitPromiseAfterCatch(initPromise) == None

\* The attempts that have not settled.
InFlight(w) ==
    { a \in DOMAIN w.attempts : w.attempts[a].state \in { "fetching", "initializing" } }

\* The catch block of the attempt, and its rejection.
Catch(w, a) ==
    [w EXCEPT !.initPromise = InitPromiseAfterCatch(@),
              !.attempts[a].state = "rejected"]

\* A step of the WASM wrapper leaves everything else as it is.
WasmStep(w) ==
    /\ wasm' = w
    /\ UNCHANGED << isUnlocked, decryptedMnemonic, storage, tasks, sent,
                    walletPassword, lockHandled, now, msgCount, providerVars,
                    popup, assigned, emitter >>

\* initWasm(), called by c, up to its return or to `await initPromise`.  A
\* new attempt runs up to `await fetch(wasmUrl)` before initPromise is
\* assigned.
InitWasm(c) ==
    /\ wasm.callers[c].pc \in { "idle", "returned", "threw" }
    /\ wasm.calls < MaxWasmCalls
    /\ LET called == [wasm EXCEPT !.calls = @ + 1]
       IN  IF wasm.wasmInitialized
           THEN WasmStep([called EXCEPT !.callers[c] = [pc |-> "returned", attempt |-> 0]])
           ELSE IF StartsAttempt(wasm.initPromise)
           THEN LET a == Len(wasm.attempts) + 1
                IN  WasmStep([called EXCEPT
                        !.attempts = Append(@, [state |-> "fetching"]),
                        !.initPromise = Some(a),
                        !.callers[c] = [pc |-> "awaiting", attempt |-> a]])
           ELSE WasmStep([called EXCEPT
                    !.callers[c] = [pc |-> "awaiting", attempt |-> wasm.initPromise[1]]])

\* `await fetch(wasmUrl)` settles: with a response that is ok, init(response)
\* is called; a rejected fetch or a response that is not ok goes to the catch.
FetchSettles(a) ==
    /\ a \in DOMAIN wasm.attempts
    /\ wasm.attempts[a].state = "fetching"
    /\ \/ WasmStep([wasm EXCEPT !.attempts[a].state = "initializing",
                                 !.inits = @ + 1])
       \/ WasmStep(Catch(wasm, a))

\* `await init(response)` settles: wasmInitialized = true, or the catch.
InitSettles(a) ==
    /\ a \in DOMAIN wasm.attempts
    /\ wasm.attempts[a].state = "initializing"
    /\ \/ WasmStep([wasm EXCEPT !.attempts[a].state = "fulfilled",
                                 !.wasmInitialized = TRUE])
       \/ WasmStep(Catch(wasm, a))

\* `await initPromise` in initWasm resumes: c's call returns, or throws the
\* attempt's error.
InitWasmResumes(c) ==
    /\ wasm.callers[c].pc = "awaiting"
    /\ LET state == wasm.attempts[wasm.callers[c].attempt].state
       IN  /\ state \in { "fulfilled", "rejected" }
           /\ WasmStep([wasm EXCEPT !.callers[c].pc =
                           IF state = "fulfilled" THEN "returned" ELSE "threw"])

NextWasm ==
    \/ \E c \in WasmCallers : InitWasm(c)
    \/ \E a \in 1 .. MaxWasmCalls : FetchSettles(a)
    \/ \E a \in 1 .. MaxWasmCalls : InitSettles(a)
    \/ \E c \in WasmCallers : InitWasmResumes(c)

SpecWasm == Init /\ [][NextWasm]_vars

\* The fetch and the module's init settle, and a call awaiting a settled
\* promise resumes.
FairSpecWasm ==
    /\ SpecWasm
    /\ \A a \in 1 .. MaxWasmCalls : WF_vars(FetchSettles(a)) /\ WF_vars(InitSettles(a))
    /\ \A c \in WasmCallers : WF_vars(InitWasmResumes(c))

\* ------------------------------------------------------------------ inpage.ts EventEmitter

\* What the page's callbacks do when they are called: return, throw, or
\* call off() for another callback of the same event and return.
Behaviour(h) ==
    CASE h = "h1" -> [does |-> "returns"]
      [] h = "h2" -> [does |-> "throws"]
      [] OTHER -> [does |-> "removes", handler |-> "h1"]

\* Set.add: at the end, unless the value is in the set
SetAdd(set, value) ==
    IF \E i \in DOMAIN set : set[i] = value THEN set ELSE Append(set, value)

\* Set.delete
SetDelete(set, value) == SelectSeq(set, LAMBDA v : v # value)

\* on(event, callback): the map it leaves
on(events, event, callback) ==
    [events EXCEPT ![event] = SetAdd(@, callback)]

\* off(event, callback): the map it leaves
off(events, event, callback) ==
    [events EXCEPT ![event] = SetDelete(@, callback)]

\* Mutant: emit calls the callback outside a try block.
Propagates_Uncaught(h) == Behaviour(h).does = "throws"

\* `try { callback(...args) } catch (err) { console.error(...) }`: what the
\* callback throws does not leave the try.
Propagates(h) == FALSE

\* Set.forEach of emit: the values are visited in insertion order; a value
\* deleted before it is visited is not visited.  pending are the values not
\* visited yet, invoked the callbacks called so far.
RECURSIVE forEach(_, _, _, _)
forEach(events, event, pending, invoked) ==
    IF pending = << >>
    THEN [events |-> events, invoked |-> invoked, propagated |-> FALSE]
    ELSE LET h == Head(pending)
             called == Append(invoked, h)
         IN  IF Propagates(h)
             THEN [events |-> events, invoked |-> called, propagated |-> TRUE]
             ELSE IF Behaviour(h).does = "removes"
             THEN forEach(off(events, event, Behaviour(h).handler), event,
                          SetDelete(Tail(pending), Behaviour(h).handler), called)
             ELSE forEach(events, event, Tail(pending), called)

\* emit(event): this.events.get(event)?.forEach(...)
emit(events, event) == forEach(events, event, events[event], << >>)

\* A call on the emitter leaves everything else as it is.
EmitterStep(events, last) ==
    /\ emitter.calls < MaxEmitterCalls
    /\ emitter' = [events |-> events, last |-> last, calls |-> emitter.calls + 1]
    /\ UNCHANGED << isUnlocked, decryptedMnemonic, storage, tasks, sent,
                    walletPassword, lockHandled, now, msgCount, providerVars,
                    popup, assigned, wasm >>

On(event, callback) ==
    EmitterStep(on(emitter.events, event, callback),
                [kind |-> "on", event |-> event, callback |-> callback])

Off(event, callback) ==
    EmitterStep(off(emitter.events, event, callback),
                [kind |-> "off", event |-> event, callback |-> callback])

Emit(event) ==
    LET done == emit(emitter.events, event)
    IN  EmitterStep(done.events,
                    [kind |-> "emit", event |-> event,
                     registered |-> emitter.events[event],
                     invoked |-> done.invoked, propagated |-> done.propagated])

NextEmitter ==
    \/ \E event \in EventNames, callback \in Handlers : On(event, callback)
    \/ \E event \in EventNames, callback \in Handlers : Off(event, callback)
    \/ \E event \in EventNames : Emit(event)

SpecEmitter == Init /\ [][NextEmitter]_vars

\* ------------------------------------------------------------------ popup.ts

PopupSender == [kind |-> "popup", origin |-> PopupOrigin]

\* `const { key } = response`, tested as a condition: undefined is falsy
Flag(response, key) == key \in DOMAIN response /\ response[key] = TRUE

\* initialize and loadWalletData, resumed with the response to the message
\* awaited: the view shown, or the next message to send.
AfterReply(p, response) ==
    CASE p.awaiting = "hasWallet" ->
           IF ~Flag(response, "hasWallet")
           THEN [pc |-> "done", awaiting |-> "none", view |-> "setup"]
           ELSE [p EXCEPT !.pc = "ask", !.awaiting = "isLocked"]
      [] p.awaiting = "isLocked" ->
           IF Flag(response, "isLocked")
           THEN [pc |-> "done", awaiting |-> "none", view |-> "locked"]
           ELSE [p EXCEPT !.pc = "ask", !.awaiting = "getActiveAccount"]
      [] p.awaiting = "getActiveAccount" ->
           [p EXCEPT !.pc = "ask", !.awaiting = "getNetwork"]
      [] OTHER -> [pc |-> "done", awaiting |-> "none", view |-> "main"]

\* DOMContentLoaded: initialize() shows the loading view and goes on to send
\* hasWallet.
PopupInitialize ==
    /\ popup.pc = "closed"
    /\ popup' = [pc |-> "ask", awaiting |-> "hasWallet", view |-> "loading"]
    /\ UNCHANGED << isUnlocked, decryptedMnemonic, storage, tasks, sent,
                    walletPassword, lockHandled, now, msgCount, providerVars,
                    assigned, wasm, emitter >>

\* sendMessage({ action }): the service worker's listener receives it.
PopupAsks(s) ==
    /\ popup.pc = "ask"
    /\ Receive(s, PopupSender, [action |-> popup.awaiting], None, MaxPopupMessages)
    /\ popup' = [popup EXCEPT !.pc = "wait"]
    /\ UNCHANGED << providerVars, assigned, wasm, emitter >>

\* sendMessage rejects with chrome.runtime.lastError: initialize's catch
\* shows the setup view.
PopupSendFails ==
    /\ popup.pc = "ask"
    /\ popup' = [pc |-> "done", awaiting |-> "none", view |-> "setup"]
    /\ UNCHANGED << isUnlocked, decryptedMnemonic, storage, tasks, sent,
                    walletPassword, lockHandled, now, msgCount, providerVars,
                    assigned, wasm, emitter >>

\* The callback of sendMessage runs with the response the listener sent.
PopupReceives ==
    /\ popup.pc = "wait"
    /\ sent.kind = "response"
    /\ sent.surface = "internal"
    /\ sent.sender = PopupSender
    /\ sent.msg = [action |-> popup.awaiting]
    /\ popup' = AfterReply(popup, sent.resp)
    /\ UNCHANGED << isUnlocked, decryptedMnemonic, storage, tasks, sent,
                    walletPassword, lockHandled, now, msgCount, providerVars,
                    assigned, wasm, emitter >>

\* What else is sent while the popup initializes: the onboarding page
\* creates a wallet, or the wallet is unlocked.
PopupTimeMessages ==
    { [action |-> "createWallet", mnemonic |-> "m1", password |-> "p1"],
      [action |-> "unlockWallet", password |-> "p1"] }

\* The popup is opened on a fresh install, or after a wallet was created in an
\* earlier run of the service worker, which starts locked.
InitPopup ==
    /\ isUnlocked = StartupSession.isUnlocked
    /\ decryptedMnemonic = StartupSession.mnemonic
    /\ \E stored \in { None }
              \cup { Some(createWalletFromMnemonic("m1", "p1", k)) : k \in Keypairs } :
          /\ storage = [ k \in StorageKeySet |->
                           IF k = STORAGE_KEYS.ENCRYPTED_WALLET THEN stored ELSE None ]
          /\ walletPassword = IF stored = None THEN None ELSE Some("p1")
    /\ tasks = [s \in Slots |-> Idle]
    /\ sent = NoOutput
    /\ lockHandled = FALSE
    /\ now = 0
    /\ msgCount = 0
    /\ pendingRequests = [ i \in {} |-> 0 ]
    /\ promises = << >>
    /\ timers = {}
    /\ clock = 0
    /\ emitted = << >>
    /\ pageStep = NoOutput
    /\ pageCount = 0
    /\ providerConnected = FALSE
    /\ page = PageProvided
    /\ popup = PopupClosed
    /\ assigned = {}
    /\ wasm = WasmAtStart
    /\ emitter = EmitterAtStart

NextPopup ==
    \/ PopupInitialize
    \/ \E s \in Slots : PopupAsks(s)
    \/ PopupSendFails
    \/ PopupReceives
    \/ \E s \in Slots, msg \in PopupTimeMessages : PopupSend(s, msg, MaxPopupMessages)
    \/ \E s \in Slots : HasWallet(s)
    \/ \E s \in Slots : IsLocked(s)
    \/ \E s \in Slots : GetActiveAccount(s)
    \/ \E s \in Slots : GetNetwork(s)
    \/ \E s \in Slots : CreateWallet(s)
    \/ \E s \in Slots : UnlockWallet(s)

SpecPopup == InitPopup /\ [][NextPopup]_vars

\* ------------------------------------------------------------------ inpage.ts

\* setTimeout(..., 60000)
REQUEST_TIMEOUT_MS == 60000

\* The page's time advances by half the timeout at a time.
TickMs == REQUEST_TIMEOUT_MS \div 2

Horizon == MaxTicks * TickMs

\* crypto.randomUUID(): a fresh id for each call.
UuidOf(call) == << "u1", "u2", "u3", "u4" >>[call]

\* An id no call was given.
UnissuedId == "u0"

\* message.result of an envelope that has none
Undefined == [undefined |-> TRUE]

NotSettled == [pending |-> TRUE]

\* What the page's window delivers to the provider's listener: the RESPONSE
\* envelopes of the relay (or of anyone posting to the window), with the id
\* of a call or another id; the relay's READY; the provider's own REQUEST.
ResponseEnvelopes ==
    LET ids == { UuidOf(k) : k \in 1..MaxCalls } \cup { UnissuedId }
    IN  { [type |-> "MINA_PROVIDER_RESPONSE", id |-> i, result |-> r] :
            i \in ids, r \in { [accounts |-> << >>], [accounts |-> << "B62a" >>] } }
        \cup { [type |-> "MINA_PROVIDER_RESPONSE", id |-> i, error |-> e] :
                 i \in ids, e \in { "Could not establish connection", "" } }

WindowData ==
    ResponseEnvelopes
    \cup { [type |-> "MINA_PROVIDER_READY"],
           [type |-> "MINA_PROVIDER_REQUEST", id |-> UuidOf(1),
            method |-> "mina_accounts", params |-> << >>] }

\* Map.set
MapSet(map, key, value) ==
    [ i \in DOMAIN map \cup {key} |-> IF i = key THEN value ELSE map[i] ]

\* Map.delete
MapDelete(map, key) == [ i \in DOMAIN map \ {key} |-> map[i] ]

\* Mutant: a response with an id that is not pending is given to the oldest
\* pending call.
MapGet_Fallback(map, key) ==
    IF key \in DOMAIN map THEN Some(map[key])
    ELSE IF DOMAIN map = {} THEN None
    ELSE Some(CHOOSE k \in { map[i] : i \in DOMAIN map } :
                \A j \in { map[i] : i \in DOMAIN map } : k <= j)

\* Mutant: a response is given to the newest pending call.
MapGet_Newest(map, key) ==
    IF key \notin DOMAIN map THEN None
    ELSE Some(CHOOSE k \in { map[i] : i \in DOMAIN map } :
                \A j \in { map[i] : i \in DOMAIN map } : k >= j)

\* Map.get: undefined (None) for a key that is not set
MapGet(map, key) ==
    IF key \in DOMAIN map THEN Some(map[key]) ELSE None

\* Mutant: the entry is not deleted when the response settles the call.
Answered_Kept(map, key) == map

\* The listener's pendingRequests.delete(message.id)
Answered(map, key) == MapDelete(map, key)

\* Mutant: the callback runs as soon as it is set.
TimerDue_AtOnce(issuedAt, time) == time >= issuedAt

\* The setTimeout callback of a call made at issuedAt may run at time.
TimerDue(issuedAt, time) == time >= issuedAt + REQUEST_TIMEOUT_MS

\* The provider's message listener, for the RESPONSE envelope of a pending
\* request: reject with message.error when it is set, else resolve with
\* message.result.
ProviderSettle(envelope) ==
    IF "error" \in DOMAIN envelope /\ envelope.error # ""
    THEN [rejected |-> envelope.error]
    ELSE IF "result" \in DOMAIN envelope THEN [resolved |-> envelope.result]
    ELSE [resolved |-> Undefined]

\* MinaProvider.getAccounts: result.accounts ?? []
ProviderGetAccounts(settled) ==
    IF "rejected" \in DOMAIN settled THEN settled
    ELSE [resolved |-> IF "accounts" \in DOMAIN settled.resolved
                       THEN settled.resolved.accounts ELSE <<>>]

\* The convenience methods of MinaProvider.
Wrappers ==
    { "requestAccounts", "getAccounts", "getBalance", "getChainId",
      "sendPayment", "sendStakeDelegation", "signMessage", "signFields" }

\* The method each passes to request().
WrapperMethod(wrapper) ==
    CASE wrapper = "requestAccounts" -> "mina_requestAccounts"
      [] wrapper = "getAccounts" -> "mina_accounts"
      [] wrapper = "getBalance" -> "mina_getBalance"
      [] wrapper = "getChainId" -> "mina_chainId"
      [] wrapper = "sendPayment" -> "mina_sendPayment"
      [] wrapper = "sendStakeDelegation" -> "mina_sendStakeDelegation"
      [] wrapper = "signMessage" -> "mina_signMessage"
      [] wrapper = "signFields" -> "mina_signFields"

\* The params each passes: none (getBalance without an address), or its
\* argument in a list.
WrapperParams(wrapper) ==
    IF wrapper \in { "requestAccounts", "getAccounts", "getBalance", "getChainId" }
    THEN << >> ELSE << "params" >>

\* The wrappers with `if (result.error) throw new Error(result.error)`.
ChecksError(wrapper) ==
    wrapper \in { "requestAccounts", "getBalance", "sendPayment",
                  "sendStakeDelegation", "signMessage", "signFields" }

\* `if (result.error)`: a string is truthy unless it is empty.
Truthy(string) == string # ""

\* result.key ?? default
Field(result, key, default) ==
    IF key \in DOMAIN result THEN result[key] ELSE default

\* The value a wrapper returns for the payload result.
Unwrap(wrapper, result) ==
    CASE wrapper \in { "requestAccounts", "getAccounts" } ->
           Field(result, "accounts", << >>)
      [] wrapper = "getBalance" -> Field(result, "balance", "0")
      [] wrapper = "getChainId" -> Field(result, "chainId", "unknown")
      [] wrapper \in { "sendPayment", "sendStakeDelegation" } ->
           [ hash |-> Field(result, "hash", "") ]
      [] wrapper \in { "signMessage", "signFields" } ->
           [ signature |-> Field(result, "signature", ""),
             publicKey |-> Field(result, "publicKey", "") ]

\* How the call of a wrapper ends when its request() has settled: a
\* rejection passes through the await; reading a property of undefined
\* throws; a truthy error is thrown by the wrappers that test it.
WrapperReturn(wrapper, settled) ==
    IF "rejected" \in DOMAIN settled THEN settled
    ELSE IF settled.resolved = Undefined THEN [rejected |-> "TypeError"]
    ELSE IF /\ ChecksError(wrapper)
            /\ "error" \in DOMAIN settled.resolved
            /\ Truthy(settled.resolved.error)
         THEN [rejected |-> settled.resolved.error]
         ELSE [resolved |-> Unwrap(wrapper, settled.resolved)]

\* Mutant: the flag is set before the error is tested.
SetsConnected_BeforeCheck(wrapper, returned) == wrapper = "requestAccounts"

\* Mutant: every wrapper that returns sets the flag.
SetsConnected_AnyWrapper(wrapper, returned) == "resolved" \in DOMAIN returned

\* this._isConnected = true: in requestAccounts, past the throw.
SetsConnected(wrapper, returned) ==
    wrapper = "requestAccounts" /\ "resolved" \in DOMAIN returned

\* The continuation of the wrapper that awaits the promise of call, run when
\* the promise has just been settled (request() called directly has none).
Resume(ps, call) ==
    IF ps[call].calls = 1 /\ ps[call].wrapper # "request"
    THEN [ ps EXCEPT ![call].returned =
             WrapperReturn(ps[call].wrapper, ps[call].outcome) ]
    ELSE ps

\* _isConnected after that continuation.
ConnectedAfter(ps, call) ==
    \/ providerConnected
    \/ /\ ps[call].calls = 1
       /\ ps[call].wrapper # "request"
       /\ SetsConnected(ps[call].wrapper, ps[call].returned)

\* pending.resolve / pending.reject, called on the promise of a call: the
\* first call settles the promise, and every call is counted.
Settle(ps, call, outcome, via) ==
    [ ps EXCEPT ![call] =
        [ @ EXCEPT !.calls = @ + 1,
                   !.outcome = IF ps[call].calls = 0 THEN outcome ELSE @,
                   !.via = IF ps[call].calls = 0 THEN via ELSE @,
                   !.settledAt = IF ps[call].calls = 0 THEN clock ELSE @ ] ]

\* The service worker's side, which the provider does not touch.
coreVars ==
    << isUnlocked, decryptedMnemonic, storage, tasks, sent, walletPassword,
       lockHandled, now, msgCount, asideVars >>

\* MinaProvider.request, called by the page ("request") or by a wrapper
Issue(wrapper, method, params) ==
    LET call == Len(promises) + 1
        id == UuidOf(call)
    IN  /\ call <= MaxCalls
        /\ clock + REQUEST_TIMEOUT_MS <= Horizon
        /\ pendingRequests' = MapSet(pendingRequests, id, call)
        /\ promises' = Append(promises,
               [ id |-> id, outcome |-> NotSettled, calls |-> 0,
                 via |-> [kind |-> "none"], issuedAt |-> clock, settledAt |-> 0,
                 wrapper |-> wrapper, returned |-> NotSettled ])
        /\ timers' = timers \cup {call}
        /\ pageStep' = [ kind |-> "request", call |-> call,
                         posted |-> [ type |-> "MINA_PROVIDER_REQUEST", id |-> id,
                                      method |-> method, params |-> params ] ]
        /\ UNCHANGED << clock, emitted, pageCount, providerConnected, page, coreVars >>

\* MinaProvider.request
Request(method) == Issue("request", method, << >>)

\* A convenience method is called: it calls request() once and awaits it.
Call(wrapper) == Issue(wrapper, WrapperMethod(wrapper), WrapperParams(wrapper))

\* setupMessageListener: the listener, for one message event
WindowMessage(sameWindow, data) ==
    /\ pageCount < MaxArrivals
    /\ pageCount' = pageCount + 1
    /\ pageStep' = [ kind |-> "message", sameWindow |-> sameWindow, data |-> data,
                     wasPending |-> /\ "id" \in DOMAIN data
                                    /\ data.id \in DOMAIN pendingRequests ]
    /\ UNCHANGED << timers, clock, page, coreVars >>
    /\ \/ /\ ~sameWindow
          /\ UNCHANGED << pendingRequests, promises, emitted, providerConnected >>
       \/ /\ sameWindow
          /\ data.type = "MINA_PROVIDER_RESPONSE"
          /\ LET pending == MapGet(pendingRequests, data.id)
             IN  IF pending = None
                 THEN UNCHANGED << pendingRequests, promises, emitted, providerConnected >>
                 ELSE /\ pendingRequests' = Answered(pendingRequests, data.id)
                      /\ promises' =
                            Resume(Settle(promises, pending[1], ProviderSettle(data),
                                          [kind |-> "response", id |-> data.id]),
                                   pending[1])
                      /\ providerConnected' = ConnectedAfter(promises', pending[1])
                      /\ UNCHANGED emitted
       \/ /\ sameWindow
          /\ data.type = "MINA_PROVIDER_READY"
          /\ emitted' = Append(emitted, "ready")
          /\ UNCHANGED << pendingRequests, promises, providerConnected >>
       \/ /\ sameWindow
          /\ data.type \notin { "MINA_PROVIDER_RESPONSE", "MINA_PROVIDER_READY" }
          /\ UNCHANGED << pendingRequests, promises, emitted, providerConnected >>

\* MinaProvider.request: the setTimeout callback of a call
TimerFires(call) ==
    /\ call \in timers
    /\ TimerDue(promises[call].issuedAt, clock)
    /\ timers' = timers \ {call}
    /\ pageStep' = [ kind |-> "timer", call |-> call,
                     wasPending |-> promises[call].id \in DOMAIN pendingRequests ]
    /\ UNCHANGED << clock, emitted, pageCount, page, coreVars >>
    /\ IF promises[call].id \in DOMAIN pendingRequests
       THEN /\ pendingRequests' = MapDelete(pendingRequests, promises[call].id)
            /\ promises' =
                  Resume(Settle(promises, call, [rejected |-> "Request timeout"],
                                [kind |-> "timer", id |-> promises[call].id]),
                         call)
            /\ providerConnected' = ConnectedAfter(promises', call)
       ELSE UNCHANGED << pendingRequests, promises, providerConnected >>

\* Time passes in the page.
Tick ==
    /\ clock < Horizon
    /\ clock' = clock + TickMs
    /\ pageStep' = [kind |-> "tick"]
    /\ UNCHANGED << pendingRequests, promises, timers, emitted, pageCount,
                    providerConnected, page, coreVars >>

NextProvider ==
    \/ Request("mina_accounts")
    \/ \E sameWindow \in BOOLEAN, data \in WindowData :
          WindowMessage(sameWindow, data)
    \/ \E call \in 1..MaxCalls : TimerFires(call)
    \/ Tick

SpecProvider == Init /\ [][NextProvider]_vars

\* The browser runs a due timer callback, and time passes.
FairSpecProvider ==
    /\ SpecProvider
    /\ WF_vars(Tick)
    /\ \A call \in 1..MaxCalls : WF_vars(TimerFires(call))

\* The payloads the Wallet Core's dispatchers return, as the relay's RESPONSE
\* carries them to the page, and the relay's own error envelope.
WrapperEnvelopes ==
    LET ids == { UuidOf(k) : k \in 1..MaxCalls }
    IN  { [type |-> "MINA_PROVIDER_RESPONSE", id |-> i, result |-> r] :
            i \in ids,
            r \in { [accounts |-> << "B62a" >>],
                    [accounts |-> << >>, error |-> ""],
                    [error |-> "User rejected connection"] } }
        \cup { [type |-> "MINA_PROVIDER_RESPONSE", id |-> i,
                error |-> "Could not establish connection"] : i \in ids }

\* The page calls the convenience methods.
NextWrappers ==
    \/ \E wrapper \in Wrappers : Call(wrapper)
    \/ \E data \in WrapperEnvelopes : WindowMessage(TRUE, data)
    \/ \E call \in 1..MaxCalls : TimerFires(call)
    \/ Tick

SpecWrappers == Init /\ [][NextWrappers]_vars

\* content.ts, top level, run in one go: injectProvider() inserts the script
\* element whose src is js/inpage.js, which the browser fetches and runs
\* later; the relay's listener is added; window.postMessage queues READY.
ContentScriptRuns ==
    /\ page.script = "absent"
    /\ page' = [script |-> "loading", ready |-> "posted"]
    /\ pageStep' = [kind |-> "content"]
    /\ UNCHANGED << pendingRequests, promises, timers, clock, emitted, pageCount,
                    providerConnected, coreVars >>

\* inpage.js runs: new MinaProvider() calls setupMessageListener, and
\* window.mina is set.
InpageScriptRuns ==
    /\ page.script = "loading"
    /\ page' = [page EXCEPT !.script = "run"]
    /\ pageStep' = [kind |-> "inpage"]
    /\ UNCHANGED << pendingRequests, promises, timers, clock, emitted, pageCount,
                    providerConnected, coreVars >>

\* The window dispatches the READY message event to the listeners it has at
\* that moment: the provider's, if inpage.js has run, which emits 'ready'.
ReadyDelivered ==
    /\ page.ready = "posted"
    /\ pageStep' = [ kind |-> "message", sameWindow |-> TRUE,
                     data |-> [type |-> "MINA_PROVIDER_READY"], wasPending |-> FALSE ]
    /\ UNCHANGED << pendingRequests, promises, timers, clock, pageCount,
                    providerConnected, coreVars >>
    /\ IF page.script = "run"
       THEN /\ page' = [page EXCEPT !.ready = "received"]
            /\ emitted' = Append(emitted, "ready")
       ELSE /\ page' = [page EXCEPT !.ready = "lost"]
            /\ UNCHANGED emitted

\* A page script calls window.mina.request, which is there once inpage.js
\* has run.
PageCallsRequest(method) == page.script = "run" /\ Request(method)

\* The provider's listener, which is there once inpage.js has run, receives
\* a RESPONSE envelope.
PageReceives(data) == page.script = "run" /\ WindowMessage(TRUE, data)

\* A page is loaded with the extension, and uses the provider once it is
\* there.
InitLoad ==
    /\ isUnlocked = StartupSession.isUnlocked
    /\ decryptedMnemonic = StartupSession.mnemonic
    /\ storage = [k \in StorageKeySet |-> None]
    /\ tasks = [s \in Slots |-> Idle]
    /\ sent = NoOutput
    /\ walletPassword = None
    /\ lockHandled = FALSE
    /\ now = 0
    /\ msgCount = 0
    /\ pendingRequests = [ i \in {} |-> 0 ]
    /\ promises = << >>
    /\ timers = {}
    /\ clock = 0
    /\ emitted = << >>
    /\ pageStep = NoOutput
    /\ pageCount = 0
    /\ providerConnected = FALSE
    /\ page = PageAtStart
    /\ popup = PopupClosed
    /\ assigned = {}
    /\ wasm = WasmAtStart
    /\ emitter = EmitterAtStart

NextLoad ==
    \/ ContentScriptRuns
    \/ InpageScriptRuns
    \/ ReadyDelivered
    \/ PageCallsRequest("mina_accounts")
    \/ \E data \in ResponseEnvelopes : PageReceives(data)
    \/ \E call \in 1..MaxCalls : TimerFires(call)
    \/ Tick

SpecLoad == InitLoad /\ [][NextLoad]_vars

\* ------------------------------------------------------------------ claims

SitesStored == storage[STORAGE_KEYS.CONNECTED_SITES]

WalletStored == storage[STORAGE_KEYS.ENCRYPTED_WALLET]

\* A reply that carries an account: a list with an entry, or an account.
HasAccountData(resp) ==
    \/ "accounts" \in DOMAIN resp /\ resp.accounts # <<>>
    \/ "account" \in DOMAIN resp /\ resp.account # None

\* The step just taken sent the Wallet Core's reply to a message.
Replied == sent.kind = "response"

RepliedTo(surface, action) ==
    /\ Replied
    /\ sent.surface = surface
    /\ sent.msg.action = action

\* A reply that signals failure and names no account.
IsErrorOnly(resp) == "error" \in DOMAIN resp /\ "accounts" \notin DOMAIN resp

Succeeded(resp) == "success" \in DOMAIN resp /\ resp.success

\* C1: the reply the relay posts to a page whose origin has had no
\* ConnectedSite entry since its request was received carries no account data.
C1_NoAccountDataForUnconnectedPage ==
    (Replied /\ sent.sender.kind = "content" /\ ~sent.seenConnected)
        => ~HasAccountData(sent.posted[1].result)

\* C2: a request relayed from a page is handled by the external dispatcher,
\* never by handleMessage, and the action dispatched is the method the page
\* named, whatever its params hold.
C2_PageRequestsUseExternalDispatcher ==
    \A s \in Slots :
        (tasks[s] # Idle /\ tasks[s].sender.kind = "content")
            => /\ tasks[s].surface = "external"
               /\ tasks[s].msg.action = tasks[s].request[1].method

\* C3: an origin that is not connected becomes connected only in a step of a
\* connectSite message that the trusted UI sent, never in a step of a request
\* a page sent through the relay.
C3_OnlyTrustedApprovalConnects ==
    [][ \A o \in Origins :
          (~isSiteConnected(SitesStored, o) /\ isSiteConnected(SitesStored', o))
              => \E s \in Slots :
                    /\ tasks[s] # Idle
                    /\ tasks[s].pc = "r1"
                    /\ tasks[s].msg.action = "connectSite"
                    /\ tasks[s].sender.kind = "popup"
                    /\ tasks'[s] # Idle
                    /\ tasks'[s].pc = "r2" ]_vars

C5_RequestAccountsRejected ==
    /\ []( (RepliedTo("external", "mina_requestAccounts") /\ ~sent.seenConnected)
              => IsErrorOnly(sent.resp) )
    /\ [][ \A s \in Slots :
             ( /\ tasks'[s].pc # tasks[s].pc
               /\ \/ /\ tasks[s] # Idle
                     /\ tasks[s].surface = "external"
                     /\ tasks[s].msg.action = "mina_requestAccounts"
                  \/ /\ tasks'[s] # Idle
                     /\ tasks'[s].surface = "external"
                     /\ tasks'[s].msg.action = "mina_requestAccounts" )
                => SitesStored' = SitesStored ]_vars

\* C5 witness: the request was rejected while the session was unlocked and a
\* wallet with an account was stored.
C5_Witness ==
    /\ RepliedTo("external", "mina_requestAccounts")
    /\ ~sent.seenConnected
    /\ isUnlocked
    /\ getActiveAccount(WalletStored) # None

C7_LockedHoldsNoMnemonic ==
    ~isUnlocked => decryptedMnemonic = Null

\* C7 witness: lockWallet was handled while a createWallet that had persisted
\* its wallet was still suspended.
C7_Witness ==
    /\ RepliedTo("internal", "lockWallet")
    /\ ~isUnlocked
    /\ \E s \in Slots :
          /\ tasks[s] # Idle
          /\ tasks[s].msg.action = "createWallet"
          /\ tasks[s].pc = "r1"

\* C8: the decrypted mnemonic is held if and only if the session is unlocked.
C8_MnemonicIffUnlocked ==
    isUnlocked <=> decryptedMnemonic # Null

\* C9: unlockWallet received and answered while the session is locked, with a
\* password that is not the stored wallet's or with no wallet stored, fails
\* and leaves the session locked without a mnemonic.
C9_UnlockRejectsWrongPassword ==
    ( /\ RepliedTo("internal", "unlockWallet")
      /\ ~sent.seenUnlocked
      /\ walletPassword # Some(sent.msg.password) )
        => /\ ~Succeeded(sent.resp)
           /\ ~isUnlocked
           /\ decryptedMnemonic = Null

Unlockers == { "createWallet", "importWallet", "unlockWallet" }

\* The step sends the successful reply to one of the given actions.
SucceedsWith(actions) ==
    /\ sent'.kind = "response"
    /\ sent'.surface = "internal"
    /\ sent'.msg.action \in actions
    /\ Succeeded(sent'.resp)

\* Only the successful reply to createWallet, importWallet or unlockWallet
\* unlocks; every other step of a message, except those exempt, leaves the
\* session as it was.
SessionStep(exempt) ==
    /\ (~isUnlocked /\ isUnlocked') => SucceedsWith(Unlockers)
    /\ (sent'.kind # "restart" /\ ~SucceedsWith(Unlockers \cup exempt))
          => UNCHANGED << isUnlocked, decryptedMnemonic >>

\* C10 as claimed: every message that fails or is another action leaves
\* isUnlocked and the mnemonic unchanged.
C10_OnlyUnlockersChangeSession == [][SessionStep({})]_vars

\* C10 as amended: lockWallet is the one other action that changes them.
C10_OnlyLifecycleChangesSession == [][SessionStep({"lockWallet"})]_vars

\* C10 witness: createWallet failed in persistence and the session is still
\* locked.
C10_Witness ==
    /\ RepliedTo("internal", "createWallet")
    /\ ~Succeeded(sent.resp)
    /\ ~isUnlocked
    /\ decryptedMnemonic = Null

\* A step of the handler running in slot s: it starts, moves on or ends.
StepOf(s) ==
    \/ tasks[s] = Idle /\ tasks'[s] # Idle
    \/ tasks[s] # Idle /\ tasks'[s] = Idle
    \/ tasks[s] # Idle /\ tasks'[s] # Idle /\ tasks'[s].pc # tasks[s].pc

\* The handler in slot s, in the state t of the slots, serves one of the
\* given actions of the internal dispatcher.
Serves(t, s, actions) ==
    /\ t[s] # Idle
    /\ t[s].surface = "internal"
    /\ t[s].msg.action \in actions

GatedActions == { "createAccount", "connectSite", "exportPrivateKey" }

SigningActions == { "sendPayment", "sendDelegation", "signMessage", "signFields" }

\* C13: sendPayment, sendDelegation, signMessage and signFields that reach
\* their case of the dispatcher while the session is locked reply 'Wallet is
\* locked'.
C13_SigningRejectsLocked ==
    ( /\ Replied
      /\ sent.surface = "internal"
      /\ sent.at = "dispatch"
      /\ sent.msg.action \in SigningActions
      /\ ~sent.seenUnlocked )
        => sent.resp = Locked

\* The calls request() has been made for.
Calls == DOMAIN promises

Settled(call) == promises[call].calls >= 1

\* The step just taken was the listener receiving, from its own window, a
\* RESPONSE envelope.
GotResponse ==
    /\ pageStep.kind = "message"
    /\ pageStep.sameWindow
    /\ pageStep.data.type = "MINA_PROVIDER_RESPONSE"

\* C14: a call whose RESPONSE envelope arrives while it is pending is settled
\* by it, once: rejected with the envelope's error when it has one, else
\* resolved with its result; its id leaves the pending set; and neither the
\* timer nor another response with that id settles it again.
C14_ResponseSettlesOnce ==
    /\ \A call \in Calls :
          /\ promises[call].calls <= 1
          /\ Settled(call) <=> promises[call].id \notin DOMAIN pendingRequests
    /\ (GotResponse /\ pageStep.wasPending)
          => \E call \in Calls :
                /\ promises[call].id = pageStep.data.id
                /\ promises[call].calls = 1
                /\ promises[call].via.kind = "response"
                /\ ("error" \in DOMAIN pageStep.data /\ pageStep.data.error # "")
                      => promises[call].outcome = [rejected |-> pageStep.data.error]
                /\ "result" \in DOMAIN pageStep.data
                      => promises[call].outcome = [resolved |-> pageStep.data.result]

\* C14 witness: the timer of a call that a response had settled has run.
C14_Witness ==
    /\ pageStep.kind = "timer"
    /\ ~pageStep.wasPending
    /\ promises[pageStep.call].via.kind = "response"
    /\ promises[pageStep.call].calls = 1

\* C15: every call is settled in the end, so one that no response settles is
\* settled by its timer; the timer rejects with 'Request timeout', no sooner
\* than 60000 ms after the call, removes the id, and rejects once.
C15_TimeoutRejects ==
    /\ \A call \in 1..MaxCalls :
          (call \in Calls) ~> (call \in Calls /\ Settled(call))
    /\ [](\A call \in Calls :
            promises[call].via.kind = "timer"
               => /\ promises[call].outcome = [rejected |-> "Request timeout"]
                  /\ promises[call].calls = 1
                  /\ promises[call].id \notin DOMAIN pendingRequests
                  /\ promises[call].settledAt
                        >= promises[call].issuedAt + REQUEST_TIMEOUT_MS)
    /\ []((pageStep.kind = "timer" /\ pageStep.wasPending)
            => promises[pageStep.call].via.kind = "timer")

\* C15 witness: the timer of a pending call ran and rejected it.
C15_Witness ==
    /\ pageStep.kind = "timer"
    /\ pageStep.wasPending
    /\ promises[pageStep.call].outcome = [rejected |-> "Request timeout"]

\* C16: a RESPONSE envelope whose id is not pending changes neither the
\* pending set nor any promise, and emits no event.
C16_UnknownIdIgnored ==
    [][ ( /\ pageStep'.kind = "message"
          /\ pageStep'.data.type = "MINA_PROVIDER_RESPONSE"
          /\ ~pageStep'.wasPending )
           => UNCHANGED << pendingRequests, promises, emitted, timers >> ]_vars

\* C16 witness: a response for a call already settled arrived while another
\* call was pending.
C16_Witness ==
    /\ GotResponse
    /\ ~pageStep.wasPending
    /\ \E call \in Calls : promises[call].id = pageStep.data.id /\ Settled(call)
    /\ DOMAIN pendingRequests # {}

\* C17: each pending entry is the call that was given that id, no two calls
\* have one id, and a promise changes only when the response bearing its own
\* id arrives, taking that envelope's result or error, or when its own timer
\* runs.
C17_OwnIdOnly ==
    /\ [](/\ \A i \in DOMAIN pendingRequests :
                /\ pendingRequests[i] \in Calls
                /\ promises[pendingRequests[i]].id = i
          /\ \A c, d \in Calls : promises[c].id = promises[d].id => c = d)
    /\ [][ \A call \in Calls :
             promises'[call] # promises[call]
                => \/ /\ pageStep'.kind = "message"
                      /\ pageStep'.sameWindow
                      /\ pageStep'.data.type = "MINA_PROVIDER_RESPONSE"
                      /\ pageStep'.data.id = promises[call].id
                      /\ promises'[call].outcome \in
                            { [rejected |-> e] : e \in
                                IF "error" \in DOMAIN pageStep'.data
                                THEN {pageStep'.data.error} ELSE {} }
                            \cup { [resolved |-> r] : r \in
                                IF "result" \in DOMAIN pageStep'.data
                                THEN {pageStep'.data.result} ELSE {Undefined} }
                   \/ /\ pageStep'.kind = "timer"
                      /\ pageStep'.call = call ]_vars

\* C17 witness: with two calls pending, the response to the second arrived
\* first.
C17_Witness ==
    /\ GotResponse
    /\ pageStep.wasPending
    /\ pageStep.data.id = UuidOf(2)
    /\ UuidOf(1) \in DOMAIN pendingRequests

\* The RESPONSE envelopes the relay posted in the step that gave this output.
PostedBy(out) == IF "posted" \in DOMAIN out THEN out.posted ELSE << >>

\* The relay's calls that end in this step: the handler of the request is
\* gone, with a reply or with the service worker.
EndingRelayCalls ==
    { s \in Slots : tasks[s] # Idle /\ tasks[s].request # None /\ tasks'[s] = Idle }

\* The relay's call that begins and ends in this step: sendMessage throws, or
\* the listener replies before the handler ever awaits.
ImmediateRelayCalls ==
    IF /\ msgCount' # msgCount
       /\ sent'.kind \in { "relayError", "response" }
       /\ sent'.request # None
    THEN 1 ELSE 0

\* C18: every request the relay forwards ends, and in the step in which it
\* ends the relay posts one RESPONSE envelope for it, with the request's id:
\* with result, the reply of the Wallet Core, when there is one, and with an
\* error when the call failed; it posts no other envelope.
C18_RelayAnswersOnce ==
    /\ \A s \in Slots : (tasks[s] # Idle) ~> (tasks[s] = Idle)
    /\ [][ /\ Len(PostedBy(sent')) = Cardinality(EndingRelayCalls) + ImmediateRelayCalls
           /\ \A s \in EndingRelayCalls :
                 \E i \in DOMAIN PostedBy(sent') :
                    /\ PostedBy(sent')[i].type = "MINA_PROVIDER_RESPONSE"
                    /\ PostedBy(sent')[i].id = tasks[s].request[1].id
           /\ (sent'.kind = "response" /\ sent'.request # None)
                 => sent'.posted =
                       << [ type |-> "MINA_PROVIDER_RESPONSE",
                            id |-> sent'.request[1].id,
                            result |-> sent'.resp ] >>
           /\ (sent'.kind = "relayError")
                 => /\ sent'.posted[1].id = sent'.request[1].id
                    /\ "error" \in DOMAIN sent'.posted[1]
           /\ (sent'.kind = "restart")
                 => \A i \in DOMAIN sent'.posted : "error" \in DOMAIN sent'.posted[i]
         ]_<< tasks, sent, msgCount >>

\* C18 witness: the service worker went away with two requests of the relay
\* in flight, and the relay posted an error for each.
C18_Witness ==
    /\ sent.kind = "restart"
    /\ Len(sent.posted) = 2
    /\ sent.posted[1].id # sent.posted[2].id

\* A createAccount handler that has written the wallet and holds the account
\* it returns to its caller.
Assigned(s) ==
    /\ Running(s, "internal", "createAccount")
    /\ tasks[s].pc = "r2"

\* C19: two createAccount messages handled at the same time never get the
\* same index: the accounts their handlers hold to return, and the account
\* one returns while the other still holds its own, have different indices.
C19_ConcurrentCreateAccountIndicesDiffer ==
    /\ \A s, r \in Slots :
          (s # r /\ Assigned(s) /\ Assigned(r))
              => tasks[s].loc.index # tasks[r].loc.index
    /\ \A r \in Slots :
          (/\ RepliedTo("internal", "createAccount")
           /\ Succeeded(sent.resp)
           /\ Assigned(r))
              => sent.resp.account[1].index # tasks[r].loc.index

\* The messages that change the EncryptedWallet of a wallet that exists.
WalletMutations == { "createAccount", "renameAccount", "setActiveAccount" }

\* A handler of such a message that has written the wallet and not replied.
Wrote(s) ==
    /\ tasks[s] # Idle
    /\ tasks[s].surface = "internal"
    /\ tasks[s].msg.action \in WalletMutations
    /\ tasks[s].pc = "r2"

\* What the message of handler t makes of wallet when it is handled alone
\* (createAccount with the keypair of the account t returns).
Applied(t, wallet) ==
    CASE t.msg.action = "createAccount" ->
           createAccount(wallet, NewAccount(wallet, Arg(t.msg, "name"), t.loc))
      [] t.msg.action = "renameAccount" ->
           IF HasAccount(wallet, t.msg.index)
           THEN renameAccount(wallet, t.msg.index, t.msg.name) ELSE wallet
      [] t.msg.action = "setActiveAccount" ->
           IF HasAccount(wallet, t.msg.index)
           THEN setActiveAccount(wallet, t.msg.index) ELSE wallet

\* The wallet createWallet wrote, of which the stored wallet still has the
\* first account's keys.
CreatedWallet ==
    createWalletFromMnemonic(WalletStored[1].encryptedMnemonic, Null,
                             WalletStored[1].accounts[1])

\* C20: when the wallet's creation and two mutating messages are all the
\* messages received, and the handlers of the two have both written the
\* wallet, the wallet stored is the created wallet with the two mutations
\* applied one after the other, in one order or the other.
C20_WalletMutationsSerialized ==
    \A s, r \in Slots :
        (s < r /\ msgCount = 3 /\ Wrote(s) /\ Wrote(r))
            => \/ WalletStored[1] =
                    Applied(tasks[r], Applied(tasks[s], CreatedWallet))
               \/ WalletStored[1] =
                    Applied(tasks[s], Applied(tasks[r], CreatedWallet))

\* C21: a createWallet message whose case runs while an EncryptedWallet is
\* stored fails, and the stored wallet (seed, accounts, active index) stays
\* as it was.
C21_CreateWalletKeepsStoredWallet ==
    [][ \A s \in Slots :
          ( /\ Serves(tasks, s, {"createWallet"})
            /\ tasks[s].pc = "dispatch"
            /\ StepOf(s)
            /\ WalletStored # None )
             => /\ WalletStored' = WalletStored
                /\ sent'.kind = "response"
                /\ ~Succeeded(sent'.resp) ]_vars

\* The handler in slot s is in createWalletFromMnemonic, past its write.
CreatedBy(t, s) ==
    /\ Serves(t, s, {"createWallet", "importWallet"})
    /\ t[s].pc = "r1"

\* C22: in the state createWalletFromMnemonic leaves when its write succeeds,
\* hasWallet is true, the stored wallet has exactly one account, of index 0,
\* which is the active one, and getActiveAccount gives the account the call
\* returns.
C22_CreateThenActiveAccount ==
    [][ \A s \in Slots :
          ( ~CreatedBy(tasks, s) /\ CreatedBy(tasks', s) )
             => /\ hasWallet(WalletStored')
                /\ Len(WalletStored'[1].accounts) = 1
                /\ WalletStored'[1].accounts[1].index = 0
                /\ WalletStored'[1].activeAccountIndex = 0
                /\ getActiveAccount(WalletStored') = Some(tasks'[s].loc) ]_vars

\* C22 witness: createWallet has written a wallet whose active account is the
\* account its handler holds to return.
C22_Witness ==
    \E s \in Slots :
        /\ CreatedBy(tasks, s)
        /\ tasks[s].msg.action = "createWallet"
        /\ WalletStored # None
        /\ getActiveAccount(WalletStored) = Some(tasks[s].loc)

\* The replies a listener's catch makes of an exception.
CaughtReplies ==
    { [success |-> FALSE, error |-> e] : e \in { "storage error", "wasm error" } }

\* C23: every message received on either listener is answered once with a
\* structured value, unless the service worker restarts first: receiving it
\* either suspends a handler or answers at once; a handler ends only by
\* sending the reply to its own message; a reply is sent by no other step;
\* a suspended handler does end; and what a listener's catch sends for an
\* exception (of the last-activity update, or inside the external dispatcher)
\* is { success: false, error: message }.
C23_EveryMessageAnsweredOnce ==
    /\ \A s \in Slots : (tasks[s] # Idle) ~> (tasks[s] = Idle)
    /\ [][ /\ (msgCount' # msgCount /\ sent'.kind # "relayError")
                => \/ /\ sent'.kind = "response"
                      /\ \A s \in Slots : (tasks'[s] = Idle) <=> (tasks[s] = Idle)
                   \/ /\ sent' = NoOutput
                      /\ \E s \in Slots :
                            /\ tasks[s] = Idle /\ tasks'[s] # Idle
                            /\ \A r \in Slots \ {s} :
                                  (tasks'[r] = Idle) <=> (tasks[r] = Idle)
           /\ \A s \in Slots :
                (tasks[s] # Idle /\ tasks'[s] = Idle /\ sent'.kind # "restart")
                   => /\ sent'.kind = "response"
                      /\ sent'.msg = tasks[s].msg
                      /\ sent'.surface = tasks[s].surface
                      /\ sent'.sender = tasks[s].sender
                      /\ \A r \in Slots \ {s} :
                            (tasks'[r] = Idle) <=> (tasks[r] = Idle)
           /\ (sent'.kind = "response" /\ msgCount' = msgCount)
                => \E s \in Slots : tasks[s] # Idle /\ tasks'[s] = Idle
         ]_<<tasks, sent, msgCount>>
    /\ []( (Replied /\ sent.at \in {"received", "caught"})
              => sent.resp \in CaughtReplies )

\* C23 witness: the storage read of a page's mina_accounts request threw and
\* the external listener's catch answered.
C23_Witness ==
    /\ RepliedTo("external", "mina_accounts")
    /\ sent.at = "caught"
    /\ sent.resp = Failure("storage error")

\* C24: a message to the external dispatcher whose action is none of its
\* cases is answered { error: 'Unknown method: <action>' } and nothing else,
\* and the step that answers it leaves the session, the stored wallet and
\* ConnectedSites as they were.
C24_UnknownMethodRejected ==
    /\ []( ( /\ Replied
             /\ sent.surface = "external"
             /\ sent.msg.action \notin ExternalMethods )
              => /\ DOMAIN sent.resp = {"error"}
                 /\ sent.msg.action = "mina_sendPayment"
                       => sent.resp.error = "Unknown method: mina_sendPayment" )
    /\ [][ ( /\ sent'.kind = "response"
             /\ sent'.surface = "external"
             /\ sent'.msg.action \notin ExternalMethods )
              => /\ UNCHANGED << isUnlocked, decryptedMnemonic >>
                 /\ WalletStored' = WalletStored
                 /\ SitesStored' = SitesStored ]_vars

\* C24 witness: mina_sendPayment was sent to the external dispatcher while a
\* wallet was stored and the session unlocked.
C24_Witness ==
    /\ RepliedTo("external", "mina_sendPayment")
    /\ sent.resp = [error |-> "Unknown method: mina_sendPayment"]
    /\ isUnlocked
    /\ WalletStored # None

\* C25: getBalance, getTransactions, sendPayment, sendDelegation, signMessage
\* and signFields that reach their case of the internal dispatcher reply the
\* failure tagged 'Not implemented', and no data value.
C25_PlaceholdersNotImplemented ==
    ( /\ Replied
      /\ sent.surface = "internal"
      /\ sent.at = "dispatch"
      /\ sent.msg.action \in PlaceholderActions )
        => sent.resp = [success |-> FALSE, error |-> "Not implemented"]

\* C26: a call of a convenience method makes one request() with the method
\* of that wrapper, and when the request resolves with a payload that has an
\* error field the call is rejected.
C26_WrappersRejectErrorPayload ==
    \A call \in Calls :
        promises[call].wrapper \in Wrappers
           => /\ (pageStep.kind = "request" /\ pageStep.call = call)
                    => pageStep.posted.method = WrapperMethod(promises[call].wrapper)
              /\ ( /\ Settled(call)
                   /\ "resolved" \in DOMAIN promises[call].outcome
                   /\ "error" \in DOMAIN promises[call].outcome.resolved )
                    => "rejected" \in DOMAIN promises[call].returned

\* C27: getChainId() of a page, whose mina_chainId request the relay forwards
\* and the Wallet Core answers, resolves to the id of the active network,
\* which is 'mainnet' when none has been selected.
C27_ChainIdIsActiveNetwork ==
    ( /\ Replied
      /\ sent.sender.kind = "content"
      /\ sent.at = "dispatch"
      /\ sent.request[1].method = "mina_chainId"
      /\ sent.request[1].params = << >> )
        => WrapperReturn("getChainId", ProviderSettle(sent.posted[1]))
             = [ resolved |->
                   getActiveNetwork(getStorage(STORAGE_KEYS.ACTIVE_NETWORK)).id ]

\* The step sets the provider's flag, and does so in the continuation of a
\* requestAccounts call whose request has just resolved with a payload that
\* passes the test given.
FlagSetBy(passes(_)) ==
    /\ ~providerConnected
    /\ providerConnected'
    /\ \E call \in DOMAIN promises :
          /\ promises[call].calls = 0
          /\ promises'[call].calls = 1
          /\ promises'[call].wrapper = "requestAccounts"
          /\ "resolved" \in DOMAIN promises'[call].outcome
          /\ passes(promises'[call].outcome.resolved)

\* The payload has no error field.
CarriesNoError(payload) == "error" \notin DOMAIN payload

\* The payload has no error field, or an empty one.
CarriesNoTruthyError(payload) ==
    "error" \in DOMAIN payload => payload.error = ""

C29_ReadyNeverLost ==
    /\ page.ready # "lost"
    /\ (page.ready = "received" /\ pageStep.kind = "message"
          /\ pageStep.data.type = "MINA_PROVIDER_READY")
          => (emitted # << >> /\ emitted[Len(emitted)] = "ready")

\* No two entries of the list have the same origin.
UniqueOrigins(sites) ==
    \A i, j \in DOMAIN sites : sites[i].origin = sites[j].origin => i = j

\* The handler in slot s, serving action, takes the step in which its write
\* of ConnectedSites takes effect.
WritesSites(s, action) ==
    /\ Serves(tasks, s, {action})
    /\ tasks[s].pc = "r1"
    /\ tasks'[s] # Idle
    /\ tasks'[s].pc = "r2"

\* C30: ConnectedSites never holds two entries with the same origin, however
\* connectSite and disconnectSite messages are interleaved; connectSite for an
\* origin that is in the list it read writes the list with that entry's name
\* and timestamp replaced, in place, and every other entry as it was; and
\* in the state the write of disconnectSite(o) leaves, o is not connected.
C30_OneEntryPerOrigin ==
    /\ [] UniqueOrigins(getConnectedSites(SitesStored))
    /\ [][ \A s \in Slots :
             WritesSites(s, "connectSite")
                => LET read == getConnectedSites(tasks[s].loc)
                       written == getConnectedSites(SitesStored')
                       site == [ origin |-> tasks[s].msg.origin,
                                 name |-> tasks[s].msg.name,
                                 connectedAt |-> now ]
                   IN  /\ Cardinality({ i \in DOMAIN written :
                                          written[i].origin = site.origin }) = 1
                       /\ isSiteConnected(tasks[s].loc, site.origin)
                             => /\ Len(written) = Len(read)
                                /\ \A i \in DOMAIN read :
                                      written[i] = IF read[i].origin = site.origin
                                                   THEN site ELSE read[i] ]_vars
    /\ [][ \A s \in Slots :
             WritesSites(s, "disconnectSite")
                => ~isSiteConnected(SitesStored', tasks[s].msg.origin) ]_vars

\* C30 witness: an origin connected before another was connected again under
\* a new name at a later time: its entry is still the first and carries the
\* later timestamp.
C30_Witness ==
    LET sites == getConnectedSites(SitesStored)
    IN  /\ Len(sites) = 2
        /\ sites[1].name = "B"
        /\ sites[2].name = "A"
        /\ sites[1].connectedAt > sites[2].connectedAt

\* ------------------------------------------------------------------ C31

\* C31: an unlocked session reverts to locked after the auto-lock period
\* without a handled message.  When no handler is running and more than
\* getAutoLockMinutes minutes have passed since the last-activity timestamp,
\* the session is locked and holds no decrypted seed.
C31_InactivityLocks ==
    ( /\ \A s \in Slots : tasks[s] = Idle
      /\ now - getLastActivity > getAutoLockMinutes )
    => /\ ~isUnlocked
       /\ decryptedMnemonic = Null

\* ------------------------------------------------------------------ C32

\* C32: popup initialization shows the view that matches the wallet.  At the
\* step in which initialize() shows a view: it is neither the locked nor the
\* main view when no wallet is stored; the locked view is shown only with a
\* wallet stored and the session locked; the main view only with a wallet
\* stored and the session unlocked.
C32_PopupViewMatchesWallet ==
    [][ popup'.view # popup.view =>
          /\ WalletStored = None => popup'.view \notin { "locked", "main" }
          /\ popup'.view = "locked" => WalletStored # None /\ ~isUnlocked
          /\ popup'.view = "main" => WalletStored # None /\ isUnlocked ]_vars

\* ------------------------------------------------------------------ C33

\* The last step was a call of fn that returned.
ReturnedFrom(step, fn) ==
    /\ step.kind = "call"
    /\ step.fn = fn
    /\ "returned" \in DOMAIN step.outcome

UniqueIndices(accounts) ==
    \A i, j \in DOMAIN accounts :
        i # j => accounts[i].index # accounts[j].index

\* C33: derivation indices are unique and monotonically assigned.  In every
\* sequential history of calls, no two accounts of the stored wallet share an
\* index, and the account that createAccount or importAccountFromPrivateKey
\* returns has an index greater than every index given earlier to an account
\* of that wallet, deleted accounts included.
C33_IndicesUniqueAndMonotonic ==
    /\ [] UniqueIndices(getAccounts(getEncryptedWallet))
    /\ [][ ( \/ ReturnedFrom(sent', "createAccount")
             \/ ReturnedFrom(sent', "importAccountFromPrivateKey") )
           => \A earlier \in assigned : sent'.outcome.returned.index > earlier ]_vars

\* ------------------------------------------------------------------ C34

\* C34: every persisted EncryptedWallet has a non-empty account list, and
\* activeAccountIndex is the index of exactly one account in it, after any
\* sequence of createWallet, createAccount, importAccountFromPrivateKey,
\* setActiveAccount, renameAccount and deleteAccount calls.
C34_ActivePointerNamesOneAccount ==
    getEncryptedWallet # None =>
        LET wallet == getEncryptedWallet[1]
        IN  /\ Len(wallet.accounts) >= 1
            /\ Cardinality({ i \in DOMAIN wallet.accounts :
                               wallet.accounts[i].index = wallet.activeAccountIndex }) = 1

\* deleteAccount has deleted the active account of a wallet of three, the
\* account at the head of the list.
C34_Witness ==
    /\ ReturnedFrom(sent, "deleteAccount")
    /\ Len(sent.read[1].accounts) = MaxAccounts
    /\ sent.read[1].activeAccountIndex = sent.args[1]
    /\ sent.read[1].accounts[1].index = sent.args[1]

\* ------------------------------------------------------------------ C35

\* C35: getActiveAccount returns the account the active pointer designates.
\* After setActiveAccount(i) has returned, getActiveAccount returns the
\* account whose index is i, also in a wallet whose account indices are not
\* their positions in the list.
C35_ActiveAccountIsDesignated ==
    ReturnedFrom(sent, "setActiveAccount") =>
        /\ getActiveAccount(getEncryptedWallet) # None
        /\ getActiveAccount(getEncryptedWallet)[1].index = sent.args[1]

\* ------------------------------------------------------------------ C36

\* C36: the Wallet Core sends no response carrying an account address at a
\* moment when the session is locked, also to a mina_accounts or
\* mina_requestAccounts request that passed its unlocked check and was
\* suspended on storage when lockWallet was handled.
C36_NoAddressSentWhileLocked ==
    ( /\ sent.kind = "response"
      /\ sent.surface = "external"
      /\ sent.msg.action \in { "mina_accounts", "mina_requestAccounts" }
      /\ HasAccountData(sent.resp) )
    => isUnlocked

\* ------------------------------------------------------------------ C37

\* A disconnectSite(origin) handler has not returned yet.
DisconnectInFlight(origin) ==
    \E s \in Slots :
        /\ tasks[s] # Idle
        /\ tasks[s].msg = [action |-> "disconnectSite", origin |-> origin]

\* C37: a disconnect is never undone by a concurrent message.  Once
\* disconnectSite(o) has returned success, o stays absent from ConnectedSites
\* as long as no connectSite(o) is issued, also when connectSite and
\* disconnectSite messages for other origins are handled concurrently.  (No
\* connectSite is ever issued for ConnectedOrigin, which starts connected: it
\* is absent with no disconnectSite handler of it running only after one has
\* returned success.)
C37_DisconnectStays ==
    [][ ( /\ ~isSiteConnected(SitesStored, ConnectedOrigin)
          /\ ~DisconnectInFlight(ConnectedOrigin) )
        => ~isSiteConnected(SitesStored', ConnectedOrigin) ]_vars

\* ------------------------------------------------------------------ C38

\* C38: initWasm is an idempotent one-shot acquisition.  At most one attempt
\* is in flight at any time; a call that arrives while an attempt is in
\* flight starts no attempt and awaits that one; and once an attempt has
\* succeeded the module's init is never called again.
C38_InitWasmOneShot ==
    /\ [] (Cardinality(InFlight(wasm)) <= 1)
    /\ [][ /\ \A c \in WasmCallers, a \in InFlight(wasm) :
                wasm'.callers[c].pc = "awaiting" /\ wasm.callers[c].pc # "awaiting"
                => /\ wasm'.callers[c].attempt = a
                   /\ wasm'.attempts = wasm.attempts
           /\ (\E a \in DOMAIN wasm.attempts : wasm.attempts[a].state = "fulfilled")
                => wasm'.inits = wasm.inits ]_vars

\* Two calls await the same attempt, and a third call is made after it
\* succeeded.
C38_Witness ==
    /\ wasm.wasmInitialized
    /\ Len(wasm.attempts) = 1
    /\ wasm.calls = 3
    /\ \A c \in WasmCallers : wasm.callers[c].pc = "returned"
    /\ \E c, d, e \in WasmCallers :
          /\ c # d
          /\ wasm.callers[c].attempt = 1
          /\ wasm.callers[d].attempt = 1
          /\ wasm.callers[e].attempt = 0

\* ------------------------------------------------------------------ C39

\* C39: a failed initialization does not poison the capability.  Every call
\* awaiting an attempt that fails throws; while no attempt has succeeded the
\* module is uninitialized, and after a failure no promise is stored; the
\* next call of initWasm then starts a fresh attempt; and once an attempt
\* has succeeded isWasmInitialized is true.
C39_FailedInitIsRetryable ==
    /\ \A c \in WasmCallers :
          ( /\ wasm.callers[c].pc = "awaiting"
            /\ wasm.attempts[wasm.callers[c].attempt].state = "rejected" )
          ~> wasm.callers[c].pc = "threw"
    /\ [] ( isWasmInitialized <=>
              \E a \in DOMAIN wasm.attempts : wasm.attempts[a].state = "fulfilled" )
    /\ [] ( ( /\ wasm.attempts # << >>
              /\ \A a \in DOMAIN wasm.attempts : wasm.attempts[a].state = "rejected" )
            => wasm.initPromise = None )
    /\ [][ \A c \in WasmCallers :
             ( /\ wasm.attempts # << >>
               /\ \A a \in DOMAIN wasm.attempts : wasm.attempts[a].state = "rejected"
               /\ wasm'.calls = wasm.calls + 1
               /\ wasm'.callers[c] # wasm.callers[c] )
             => /\ Len(wasm'.attempts) = Len(wasm.attempts) + 1
                /\ wasm'.callers[c] = [pc |-> "awaiting", attempt |-> Len(wasm'.attempts)]
                /\ InFlight(wasm') = { Len(wasm'.attempts) } ]_vars

\* An attempt failed with two calls awaiting it, both threw, and the attempt
\* the next call started has succeeded.
C39_Witness ==
    /\ isWasmInitialized
    /\ Len(wasm.attempts) = 2
    /\ wasm.attempts[1].state = "rejected"
    /\ wasm.attempts[2].state = "fulfilled"
    /\ \E c, d \in WasmCallers :
          /\ c # d
          /\ wasm.callers[c] = [pc |-> "threw", attempt |-> 1]
          /\ wasm.callers[d] = [pc |-> "returned", attempt |-> 2]

\* ------------------------------------------------------------------ C40

\* How many times h was called by the last emit.
Invocations(h) ==
    Cardinality({ i \in DOMAIN emitter.last.invoked : emitter.last.invoked[i] = h })

Registered(h) ==
    \E i \in DOMAIN emitter.last.registered : emitter.last.registered[i] = h

\* A handler registered before h removes h when it is called.
RemovedEarlier(h) ==
    \E i, j \in DOMAIN emitter.last.registered :
        /\ i < j
        /\ emitter.last.registered[j] = h
        /\ Behaviour(emitter.last.registered[i]).does = "removes"
        /\ Behaviour(emitter.last.registered[i]).handler = h

====
